---- MODULE Spec2Model ----
(***************************************************************************)
(* Model of the adaptive learning assistant's question pipeline:           *)
(*   core/search.py            search_content, rerank_results,             *)
(*                             search_and_rerank                           *)
(*   core/question_analysis.py check_question_scope,                       *)
(*                             classify_question_type,                     *)
(*                             analyze_question_maturity,                  *)
(*                             analyze_indexed_content                     *)
(*   core/adaptive_response.py generate_adaptive_response,                 *)
(*                             generate_out_of_scope_response              *)
(*   core/indexing.py, main.py setup_content_indexing and the saved index  *)
(*                             state                                       *)
(*   core/async_media.py       generate_media_async, check_media_status    *)
(*                                                                         *)
(* Text is a sequence of whitespace-separated tokens.  A completion reply  *)
(* is a sequence of symbols: "{", "}", "x" (prose) and body tokens, each   *)
(* standing for the member list of one JSON object.  Floats that are       *)
(* multiples of 0.1 are carried in tenths; relevance scores are carried    *)
(* in thousandths plus the IEEE-754 rounding excess (see FloatScore).      *)
(***************************************************************************)
EXTENDS Integers, Sequences, FiniteSets, TLC

VARIABLES
    op,               \* the entry point that was called
    pc,               \* position inside the running call
    question,         \* the question / query text (sequence of tokens)
    preferred_format, \* generate_adaptive_response's preferred_format
    groq_client,      \* TRUE iff a completion client was passed
    collection,       \* the vector store handle: [docs, fails]
    initial_results,  \* rerank_results' initial_results argument
    top_k,            \* rerank_results' / search_and_rerank's top_k
    n_results,        \* search_content's n_results
    scope_validation, \* generate_adaptive_response: local scope_validation
    question_type,    \* generate_adaptive_response: local question_type
    analysis,         \* generate_adaptive_response: local analysis
    all_results,      \* generate_adaptive_response: local all_results
    qi,               \* generate_adaptive_response: index in search_queries[:3]
    result,           \* value returned to the caller
    raised,           \* TRUE iff an exception reached the caller
    failed,           \* the step whose exception reached the try block of
                      \* generate_adaptive_response, or left a run of
                      \* setup_content_indexing; "" when none did
    llmLog,           \* completion requests issued, in order (by purpose)
    replyLog,         \* what the completion service answered to a directly
                      \* called analysis; of the generator's calls only the
                      \* final completion's answer is kept
    storeLog,         \* vector store calls issued, in order
    scored,           \* number of rerank_results calls made so far
    files,            \* the resources directory: a set of [name, mtime, ok]
    stateFile,        \* content of index.state.json
    chroma,           \* the vector database: [exists, docs] of the collection
    idxLog,           \* the steps the last setup_content_indexing run took
    pre,              \* files, stateFile and chroma when that run started
    edits,            \* changes made to the directory and state file so far
    statusFile,       \* the status file of the interaction: absent, or text
    pending,          \* the part of the JSON text json.dump has yet to write
    wpc,              \* position of the background media thread
    ppc,              \* position of the poller inside check_media_status
    polled,           \* what the poller's last look at the status file found
    written,          \* the JSON texts that were written to the status file
                      \* in full
    mediaLog,         \* events of the background media thread, in order
    openai_client,    \* TRUE iff the media task was given a speech client
    message,          \* the assistant message of the interaction in the
                      \* chat history: audio_ready, video_ready, media_error
    upc               \* position of the chat interface's script run

vars == <<op, pc, question, preferred_format, groq_client, collection,
          initial_results, top_k, n_results, scope_validation, question_type,
          analysis, all_results, qi, result, raised, failed, llmLog,
          replyLog, storeLog, scored, files, stateFile, chroma, idxLog, pre,
          edits, statusFile, pending, wpc, ppc, polled, written, mediaLog,
          openai_client, message, upc>>

-----------------------------------------------------------------------------
(* Bounds of the model *)

MaxQueryWords == 4
MaxResults == 2
MaxTopK == 2
MaxDocs == 2
MaxReplyLen == 3
MaxFiles == 2
MaxMtime == 2
MaxEdits == 1

-----------------------------------------------------------------------------
(* Generic sequence helpers *)

Min(a, b) == IF a < b THEN a ELSE b

SeqsUpTo(S, n) == UNION {[1..k -> S] : k \in 0..n}

Take(s, n) == SubSeq(s, 1, Min(n, Len(s)))

Range(s) == {s[i] : i \in 1..Len(s)}

\* text[:n]: a token with its separator stands for 50 characters of text
Chars(text, n) == Take(text, n \div 50)

NoValue == [tag |-> "none"]

-----------------------------------------------------------------------------
(* Text: str.lower(), str.split(), substring tests *)

\* mutant: lower-casing also strips the trailing punctuation
LowerStripped(w) ==
    CASE w = "HTML" -> "html"
      [] w = "HTML?" -> "html"
      [] w = "Explain" -> "explain"
      [] w = "What" -> "what"
      [] OTHER -> w

\* str.lower() on one token
Lower(w) ==
    CASE w = "HTML" -> "html"
      [] w = "HTML?" -> "html?"
      [] w = "Explain" -> "explain"
      [] w = "What" -> "what"
      [] OTHER -> w

\* the bonus terms that occur as substrings of the lower-cased token
TermsIn(w) ==
    CASE Lower(w) = "exercises" -> {"exercise"}
      [] Lower(w) = "exercise" -> {"exercise"}
      [] Lower(w) = "practice" -> {"practice"}
      [] Lower(w) = "video" -> {"video"}
      [] Lower(w) = "explain" -> {"explain"}
      [] OTHER -> {}

\* set(text.lower().split())
TermSet(text) == {Lower(text[i]) : i \in 1..Len(text)}

\* term in text.lower()   (the terms hold no whitespace, so a match lies
\* inside one token)
ContainsTerm(text, term) == \E i \in 1..Len(text) : term \in TermsIn(text[i])

-----------------------------------------------------------------------------
(* The vector store (chromadb collection), an opaque nearest-neighbour     *)
(* store: collection = [docs |-> the stored documents, fails |-> TRUE iff  *)
(* every call on it raises].  Every document carries the metadata the     *)
(* processors set: type and file.                                          *)

DocTypes == {"exercise", "video", "text", "pdf"}

Doc(content, type, file) ==
    [content |-> content, metadata |-> [type |-> type, file |-> file]]

Documents ==
    { Doc(<<"HTML", "exercises", "video", "explain">>, "exercise", "quiz.json"),
      Doc(<<"html", "video">>, "video", "intro.mp4"),
      Doc(<<"Explain", "HTML", "is">>, "text", "html.txt"),
      Doc(<<"is", "css">>, "pdf", "css.pdf") }

\* the one document of the worked retrieval example
ExampleDoc == Doc(<<"HTML", "is", "a", "markup", "language">>, "text", "html.txt")

\* a chunk of another file that starts with the same 100 characters
ExampleTwin == Doc(<<"HTML", "is", "a", "language">>, "pdf", "css.pdf")

\* a store holding the two chunks, and one holding four documents
TwinStore == [docs |-> <<ExampleDoc, ExampleTwin>>, fails |-> FALSE]

FullStore ==
    [docs |-> << Doc(<<"HTML", "exercises", "video", "explain">>, "exercise", "quiz.json"),
                 Doc(<<"html", "video">>, "video", "intro.mp4"),
                 Doc(<<"Explain", "HTML", "is">>, "text", "html.txt"),
                 Doc(<<"is", "css">>, "pdf", "css.pdf") >>,
     fails |-> FALSE]

Collections ==
    [docs : {d \in SeqsUpTo(Documents, MaxDocs) :
                \A i, j \in 1..Len(d) : i < j => d[i] /= d[j]},
     fails : BOOLEAN]
    \cup {[docs |-> <<ExampleDoc>>, fails |-> FALSE], TwinStore, FullStore}

\* the store's similarity of a stored document to the query text
Similarity(query, doc) == Cardinality(TermSet(query) \cap TermSet(doc.content))

\* position of x among the elements of a sequence sorted by descending key:
\* after every element whose key is >= key(x)
RECURSIVE RankedBy(_, _)
RankedBy(query, docs) ==
    IF Len(docs) <= 1 THEN docs
    ELSE LET done == RankedBy(query, SubSeq(docs, 1, Len(docs) - 1))
             x == docs[Len(docs)]
             p == Cardinality({i \in 1..Len(done) :
                      Similarity(query, done[i]) >= Similarity(query, x)})
         IN SubSeq(done, 1, p) \o <<x>> \o SubSeq(done, p + 1, Len(done))

\* collection.query(query_texts=[query], n_results=n): parallel arrays, one
\* entry per hit, nearest first; raises on a backend error
StoreQuery(coll, query, n) ==
    IF coll.fails THEN [raises |-> TRUE, documents |-> <<>>, metadatas |-> <<>>]
    ELSE LET hits == Take(RankedBy(query, coll.docs), n)
         IN [raises |-> FALSE,
             documents |-> [i \in 1..Len(hits) |-> hits[i].content],
             metadatas |-> [i \in 1..Len(hits) |-> hits[i].metadata]]

QueryCall(query, n) == [call |-> "query", query |-> query, n |-> n]

-----------------------------------------------------------------------------
(* core/search.py *)

\* mutant: the hits are collected last first
search_content_reversed(coll, query, n) ==
    LET results == StoreQuery(coll, query, n)
        k == Len(results.documents)
    IN [value |-> IF results.raises THEN <<>>
                  ELSE [i \in 1..k |->
                           [content |-> results.documents[k + 1 - i],
                            metadata |-> results.metadatas[k + 1 - i]]],
        store |-> <<QueryCall(query, n)>>]

\* search_content: one lookup; any exception gives []
search_content(coll, query, n) ==
    LET results == StoreQuery(coll, query, n)
    IN [value |-> IF results.raises THEN <<>>
                  ELSE [i \in 1..Len(results.documents) |->
                           [content |-> results.documents[i],
                            metadata |-> results.metadatas[i]]],
        store |-> <<QueryCall(query, n)>>]

\* overlap = len(query_terms.intersection(content_terms))
Overlap(query, content) == Cardinality(TermSet(query) \cap TermSet(content))

\* mutant: the keyword bonus is not capped
KeywordBonusUncapped(overlap) == overlap

\* keyword_bonus = min(overlap * 0.1, 0.3), in tenths
KeywordBonus(overlap) == Min(overlap, 3)

\* the if/elif chain on content_type, in tenths
TypeBonus(query, content_type) ==
    IF content_type = "exercise"
       /\ \E t \in {"exercise", "practice", "question"} : ContainsTerm(query, t)
    THEN 2
    ELSE IF content_type = "video"
            /\ \E t \in {"video", "watch", "tutorial"} : ContainsTerm(query, t)
    THEN 2
    ELSE IF content_type = "text"
            /\ \E t \in {"explain", "definition", "concept"} : ContainsTerm(query, t)
    THEN 1
    ELSE 0

\* base_score + keyword_bonus + type_bonus as the double the interpreter
\* computes, in thousandths: every sum is the double nearest its decimal
\* value except 0.8 + 0.3 + 0.1 = 1.2000000000000002, one rounding step above
\* 1.2 (carried as 1201)
FloatScore(kb, tb) ==
    800 + 100 * kb + 100 * tb + (IF kb = 3 /\ tb = 1 THEN 1 ELSE 0)

\* one entry of enhanced_results
Enhanced(query, r) ==
    LET overlap == Overlap(query, r.content)
    IN [content |-> r.content,
        metadata |-> r.metadata,
        relevance_score |-> FloatScore(KeywordBonus(overlap),
                                       TypeBonus(query, r.metadata.type)),
        keyword_matches |-> overlap]

\* mutant: an element goes before the elements of equal score
RECURSIVE SortByScoreUnstable(_)
SortByScoreUnstable(s) ==
    IF Len(s) <= 1 THEN s
    ELSE LET done == SortByScoreUnstable(SubSeq(s, 1, Len(s) - 1))
             x == s[Len(s)]
             p == Cardinality({i \in 1..Len(done) :
                      done[i].relevance_score > x.relevance_score})
         IN SubSeq(done, 1, p) \o <<x>> \o SubSeq(done, p + 1, Len(done))

\* enhanced_results.sort(key=relevance_score, reverse=True): stable
RECURSIVE SortByScore(_)
SortByScore(s) ==
    IF Len(s) <= 1 THEN s
    ELSE LET done == SortByScore(SubSeq(s, 1, Len(s) - 1))
             x == s[Len(s)]
             p == Cardinality({i \in 1..Len(done) :
                      done[i].relevance_score >= x.relevance_score})
         IN SubSeq(done, 1, p) \o <<x>> \o SubSeq(done, p + 1, Len(done))

rerank_results(query, results, k) ==
    IF results = <<>> THEN <<>>
    ELSE Take(SortByScore([i \in 1..Len(results) |-> Enhanced(query, results[i])]), k)

\* mutant: the scorer runs on an empty search result as well
search_and_rerank_unguarded(coll, query, n, k) ==
    LET found == search_content(coll, query, n)
    IN [value |-> rerank_results(query, found.value, k),
        store |-> found.store,
        scored |-> 1]

\* search_and_rerank: scored counts the calls of rerank_results it makes
search_and_rerank(coll, query, n, k) ==
    LET found == search_content(coll, query, n)
    IN [value |-> IF found.value /= <<>>
                  THEN rerank_results(query, found.value, k)
                  ELSE <<>>,
        store |-> found.store,
        scored |-> IF found.value /= <<>> THEN 1 ELSE 0]

-----------------------------------------------------------------------------
(* The completion service (groq_client.chat.completions.create) and the    *)
(* JSON its reply may carry.  A reply either raises or is a text.  A dict  *)
(* is [keys |-> the keys present, val |-> their values].                   *)

Dict(rec) == [keys |-> DOMAIN rec, val |-> rec]

EmptyDict == [keys |-> {}, val |-> [none |-> TRUE]]

\* d.get(k, default)
Get(d, k, default) == IF k \in d.keys THEN d.val[k] ELSE default

\* a JSON list of strings, or a list holding a number
StrList(items) == [strings |-> TRUE, items |-> items]
NumList == [strings |-> FALSE, items |-> <<>>]

\* the JSON object a body token stands for
JSONObject(body) ==
    CASE body = "S_in" ->
           Dict([in_scope |-> TRUE, confidence |-> 8, reasoning |-> "llm"])
      [] body = "S_out" ->
           Dict([in_scope |-> FALSE, confidence |-> 8, reasoning |-> "llm"])
      [] body = "C_full" ->
           Dict([type |-> "overview", verbosity |-> "concise", style |-> "list",
                 reasoning |-> "llm"])
      [] body = "C_odd" ->
           Dict([type |-> "scope", verbosity |-> "verbose"])
      [] body = "M_full" ->
           Dict([knowledge_level |-> "beginner",
                 topics |-> StrList(<< <<"html">>, <<"css">>, <<"video">> >>),
                 confidence |-> 9, reasoning |-> "llm"])
      [] body = "M_notopics" ->
           Dict([knowledge_level |-> "advanced", confidence |-> 7])
      [] body = "M_nolevel" ->
           Dict([topics |-> StrList(<< <<"html">> >>), confidence |-> 7])
      [] body = "M_noconf" ->
           Dict([knowledge_level |-> "advanced",
                 topics |-> StrList(<< <<"css">> >>)])
      [] body = "A_full" ->
           Dict([summary |-> "llm", technologies |-> StrList(<< <<"HTML">> >>),
                 topics |-> StrList(<< <<"markup">> >>),
                 content_types |-> StrList(<< <<"text">> >>),
                 example_questions |-> StrList(<< <<"What", "is", "HTML?">> >>),
                 file_count |-> 1])
      [] body = "A_numbers" ->
           Dict([summary |-> "llm", technologies |-> NumList,
                 topics |-> StrList(<<>>)])
      [] OTHER -> EmptyDict

\* the body tokens a reply to each request may hold
Bodies(purpose) ==
    CASE purpose = "scope" -> {"S_in", "S_out"}
      [] purpose = "classify" -> {"C_full", "C_odd"}
      [] purpose = "maturity" -> {"M_full", "M_notopics", "M_nolevel", "M_noconf"}
      [] purpose = "content" -> {"A_full", "A_numbers"}
      [] OTHER -> {}

AllBodies == {"S_in", "S_out", "C_full", "C_odd", "M_full", "M_notopics",
              "M_nolevel", "M_noconf", "A_full", "A_numbers"}

Replies(purpose) ==
    [raises : {FALSE},
     content : SeqsUpTo({"{", "}", "x"} \cup Bodies(purpose), MaxReplyLen)]
    \cup {[raises |-> TRUE, content |-> <<>>]}

\* re.search(r"\{.*\}", text, re.DOTALL): leftmost "{" through the last "}"
FirstOpen(text) ==
    IF \E i \in 1..Len(text) : text[i] = "{"
    THEN CHOOSE i \in 1..Len(text) :
            text[i] = "{" /\ \A j \in 1..(i - 1) : text[j] /= "{"
    ELSE 0

LastClose(text) ==
    IF \E i \in 1..Len(text) : text[i] = "}"
    THEN CHOOSE i \in 1..Len(text) :
            text[i] = "}" /\ \A j \in (i + 1)..Len(text) : text[j] /= "}"
    ELSE 0

json_match(text) ==
    LET a == FirstOpen(text)
        b == LastClose(text)
    IN IF a > 0 /\ b > a
       THEN [found |-> TRUE, group |-> SubSeq(text, a, b)]
       ELSE [found |-> FALSE, group |-> <<>>]

\* json.loads(span) of a span that starts with "{" and ends with "}": an
\* object with no member, or with one member list; anything else raises
json_loads(span) ==
    IF Len(span) = 2
    THEN [ok |-> TRUE, obj |-> EmptyDict]
    ELSE IF Len(span) = 3 /\ span[2] \in AllBodies
    THEN [ok |-> TRUE, obj |-> JSONObject(span[2])]
    ELSE [ok |-> FALSE, obj |-> EmptyDict]

\* response.choices[0].message.content -> re.search -> json.loads, the
\* sequence every analysis runs inside its try block
ParsedReply(reply) ==
    IF reply.raises THEN [ok |-> FALSE, why |-> "call", obj |-> EmptyDict]
    ELSE LET m == json_match(reply.content)
         IN IF ~m.found THEN [ok |-> FALSE, why |-> "no_json", obj |-> EmptyDict]
            ELSE LET j == json_loads(m.group)
                 IN IF j.ok THEN [ok |-> TRUE, why |-> "", obj |-> j.obj]
                    ELSE [ok |-> FALSE, why |-> "parse", obj |-> EmptyDict]

-----------------------------------------------------------------------------
(* core/question_analysis.py.  Each operator gives the call's outcome:     *)
(* [value |-> the dict returned, llm |-> the completion requests issued,   *)
(*  store |-> the vector store calls issued].  `reply` is what the         *)
(* completion service answers if it is asked.  Confidences are in tenths.  *)

Request(purpose, prompt) == [purpose |-> purpose, prompt |-> prompt]

\* the markers check_question_scope looks for in a lower-cased token
MarkersIn(w) ==
    CASE Lower(w) \in {"html", "html?", "html.txt"} -> {"html"}
      [] Lower(w) \in {"css", "css.pdf"} -> {"css"}
      [] Lower(w) = "quiz.json" -> {"js"}
      [] OTHER -> {}

HasMarker(text, marker) == \E i \in 1..Len(text) : marker \in MarkersIn(text[i])

\* the loop building indexed_topics from the search results
IndexedTopics(results) ==
    UNION { (IF HasMarker(results[i].content, "html")
                \/ HasMarker(<<results[i].metadata.file>>, "html")
             THEN {"HTML"} ELSE {})
            \cup
            (IF HasMarker(results[i].content, "css")
                \/ HasMarker(<<results[i].metadata.file>>, "css")
             THEN {"CSS"} ELSE {})
            \cup
            (IF HasMarker(results[i].content, "javascript")
                \/ HasMarker(<<results[i].metadata.file>>, "js")
             THEN {"JavaScript"} ELSE {})
            \cup
            (IF HasMarker(results[i].content, "php")
                \/ HasMarker(<<results[i].metadata.file>>, "php")
             THEN {"PHP"} ELSE {})
            \cup
            (IF HasMarker(results[i].content, "programming")
             THEN {"Programming Basics"} ELSE {})
          : i \in 1..Len(results) }

ScopeNoClient ==
    Dict([in_scope |-> TRUE, confidence |-> 5,
          reasoning |-> "No LLM available for scope validation"])

ScopeNoContent ==
    Dict([in_scope |-> FALSE, confidence |-> 9,
          reasoning |-> "No related content found in indexed database"])

\* mutant: the failure default fails closed
ScopeFailedClosed ==
    Dict([in_scope |-> FALSE, confidence |-> 3,
          reasoning |-> "Scope validation failed, defaulting to in-scope"])

ScopeFailed ==
    Dict([in_scope |-> TRUE, confidence |-> 3,
          reasoning |-> "Scope validation failed, defaulting to in-scope"])

\* mutant: an empty search result does not end the call, the completion
\* service is asked all the same
check_question_scope_always_asks(q, coll, client, reply) ==
    IF ~client
    THEN [value |-> ScopeNoClient, llm |-> <<>>, store |-> <<>>]
    ELSE LET found == search_content(coll, q, 5)
             parsed == ParsedReply(reply)
         IN [value |-> IF parsed.ok THEN parsed.obj ELSE ScopeFailed,
             llm |-> <<Request("scope",
                         [question |-> q,
                          topics |-> IndexedTopics(found.value)])>>,
             store |-> found.store]

\* mutant: the search runs first and the client is looked at afterwards
check_question_scope_search_first(q, coll, client, reply) ==
    LET found == search_content(coll, q, 5)
    IN IF found.value = <<>>
       THEN [value |-> ScopeNoContent, llm |-> <<>>, store |-> found.store]
       ELSE IF ~client
       THEN [value |-> ScopeNoClient, llm |-> <<>>, store |-> found.store]
       ELSE LET parsed == ParsedReply(reply)
            IN [value |-> IF parsed.ok THEN parsed.obj ELSE ScopeFailed,
                llm |-> <<Request("scope",
                            [question |-> q,
                             topics |-> IndexedTopics(found.value)])>>,
                store |-> found.store]

check_question_scope(q, coll, client, reply) ==
    IF ~client
    THEN [value |-> ScopeNoClient, llm |-> <<>>, store |-> <<>>]
    ELSE LET found == search_content(coll, q, 5)
         IN IF found.value = <<>>
            THEN [value |-> ScopeNoContent, llm |-> <<>>, store |-> found.store]
            ELSE LET parsed == ParsedReply(reply)
                 IN [value |-> IF parsed.ok THEN parsed.obj ELSE ScopeFailed,
                     llm |-> <<Request("scope",
                                 [question |-> q,
                                  topics |-> IndexedTopics(found.value)])>>,
                     store |-> found.store]

ClassifyNoClient ==
    Dict([type |-> "technical", verbosity |-> "detailed", style |-> "educational"])

\* mutant: the failure default repeats the no-client default's verbosity
ClassifyFailedDetailed ==
    Dict([type |-> "technical", verbosity |-> "detailed", style |-> "educational",
          reasoning |-> "Classification failed, using default"])

ClassifyFailed ==
    Dict([type |-> "technical", verbosity |-> "moderate", style |-> "educational",
          reasoning |-> "Classification failed, using default"])

classify_question_type(q, client, reply) ==
    IF ~client
    THEN [value |-> ClassifyNoClient, llm |-> <<>>, store |-> <<>>]
    ELSE LET parsed == ParsedReply(reply)
         IN [value |-> IF parsed.ok THEN parsed.obj ELSE ClassifyFailed,
             llm |-> <<Request("classify", [question |-> q])>>,
             store |-> <<>>]

MaturityNoClient ==
    Dict([knowledge_level |-> "intermediate",
          topics |-> StrList(<< <<"general">> >>),
          confidence |-> 5,
          reasoning |-> "Default classification due to unavailable AI analysis"])

\* f"Analysis failed: {str(e)}"
AnalysisFailed(why) ==
    CASE why = "call" -> "Analysis failed: completion error"
      [] why = "no_json" -> "Analysis failed: No valid JSON found in response"
      [] why = "parse" -> "Analysis failed: JSONDecodeError"
      [] OTHER -> "Analysis failed: 'knowledge_level'"

\* mutant: the failure default repeats the no-client default's confidence
MaturityFailedHalf(why) ==
    Dict([knowledge_level |-> "intermediate",
          topics |-> StrList(<< <<"general">> >>),
          confidence |-> 5,
          reasoning |-> AnalysisFailed(why)])

MaturityFailed(why) ==
    Dict([knowledge_level |-> "intermediate",
          topics |-> StrList(<< <<"general">> >>),
          confidence |-> 3,
          reasoning |-> AnalysisFailed(why)])

\* inside the try block the log line reads analysis['knowledge_level']: a
\* parsed object without that key raises KeyError there
analyze_question_maturity(q, client, reply) ==
    IF ~client
    THEN [value |-> MaturityNoClient, llm |-> <<>>, store |-> <<>>]
    ELSE LET parsed == ParsedReply(reply)
         IN [value |-> IF ~parsed.ok THEN MaturityFailed(parsed.why)
                       ELSE IF "knowledge_level" \notin parsed.obj.keys
                       THEN MaturityFailed("KeyError")
                       ELSE parsed.obj,
             llm |-> <<Request("maturity", [question |-> q])>>,
             store |-> <<>>]

\* collection.get(limit=n): a sample of the stored documents
StoreGet(coll, n) ==
    IF coll.fails THEN [raises |-> TRUE, documents |-> <<>>, metadatas |-> <<>>]
    ELSE LET sample == Take(coll.docs, n)
         IN [raises |-> FALSE,
             documents |-> [i \in 1..Len(sample) |-> sample[i].content],
             metadatas |-> [i \in 1..Len(sample) |-> sample[i].metadata]]

GetCall(n) == [call |-> "get", query |-> <<>>, n |-> n]

ContentNoClient ==
    Dict([summary |-> "Conteudo educacional disponivel",
          technologies |-> StrList(<< <<"Programacao">> >>),
          topics |-> StrList(<< <<"Conceitos", "basicos">> >>),
          content_types |-> StrList(<< <<"Materiais", "educacionais">> >>),
          example_questions |-> StrList(<< <<"O", "que", "voce", "pode", "me", "ensinar?">> >>),
          file_count |-> 0])

ContentEmpty ==
    Dict([summary |-> "Base de conhecimento vazia",
          technologies |-> StrList(<<>>),
          topics |-> StrList(<<>>),
          content_types |-> StrList(<<>>),
          example_questions |-> StrList(<< <<"Nenhum", "conteudo", "disponivel", "no", "momento">> >>),
          file_count |-> 0])

\* mutant: the failure default lists no technology and no topic
ContentFailedBare(file_count) ==
    Dict([summary |-> "Conteudo educacional sobre programacao",
          technologies |-> StrList(<<>>),
          topics |-> StrList(<<>>),
          content_types |-> StrList(<< <<"Materiais", "educacionais">> >>),
          example_questions |-> StrList(<< <<"Explique", "conceitos", "basicos", "de", "programacao">> >>),
          file_count |-> file_count])

\* file_count if "file_count" in locals() else 0
ContentFailed(file_count) ==
    Dict([summary |-> "Conteudo educacional sobre programacao",
          technologies |-> StrList(<< <<"Programacao", "geral">> >>),
          topics |-> StrList(<< <<"Conceitos", "basicos">> >>),
          content_types |-> StrList(<< <<"Materiais", "educacionais">> >>),
          example_questions |-> StrList(<< <<"Explique", "conceitos", "basicos", "de", "programacao">> >>),
          file_count |-> file_count])

\* the log line takes len(analysis_result.get('technologies', [])): every
\* JSON list has a length, so it does not raise on the objects modelled
analyze_indexed_content(coll, client, reply) ==
    IF ~client
    THEN [value |-> ContentNoClient, llm |-> <<>>, store |-> <<>>]
    ELSE LET sample == StoreGet(coll, 30)
         IN IF sample.raises
            THEN [value |-> ContentFailed(0), llm |-> <<>>, store |-> <<GetCall(30)>>]
            ELSE IF sample.documents = <<>>
            THEN [value |-> ContentEmpty, llm |-> <<>>, store |-> <<GetCall(30)>>]
            ELSE LET parsed == ParsedReply(reply)
                 IN [value |-> IF parsed.ok THEN parsed.obj
                               ELSE ContentFailed(Len(sample.documents)),
                     llm |-> <<Request("content",
                                 [files |-> [i \in 1..Min(10, Len(sample.documents)) |->
                                                sample.metadatas[i].file]])>>,
                     store |-> <<GetCall(30)>>]

-----------------------------------------------------------------------------
(* core/adaptive_response.py *)

NotConfigured == [tag |-> "apology", text |-> "servico de IA nao esta configurado"]

AnalysisUnavailable == [tag |-> "apology", text |-> "problema ao analisar sua pergunta"]

ProblemGenerating == [tag |-> "apology", text |-> "problema ao gerar sua resposta"]

\* ', '.join(x) if x else "": joining a list that holds a number raises
\* TypeError; an empty list is not joined
JoinRaises(list) == ~list.strings

\* generate_out_of_scope_response: the outcome carries `raises` as well; the
\* template is the record of the values interpolated into it
generate_out_of_scope_response(q, coll, client, reply) ==
    LET ca == analyze_indexed_content(coll, client, reply)
        d == ca.value
        technologies == Get(d, "technologies", StrList(<<>>))
        topics == Get(d, "topics", StrList(<<>>))
        content_types == Get(d, "content_types", StrList(<<>>))
        example_questions == Get(d, "example_questions", StrList(<<>>))
        bad == JoinRaises(technologies) \/ JoinRaises(topics)
               \/ JoinRaises(content_types) \/ JoinRaises(example_questions)
    IN [raises |-> bad,
        value |-> IF bad THEN NoValue
                  ELSE [tag |-> "out_of_scope",
                        question |-> q,
                        summary |-> Get(d, "summary", "Conteudo educacional"),
                        technologies |-> technologies.items,
                        topics |-> topics.items,
                        content_types |-> content_types.items,
                        file_count |-> Get(d, "file_count", 0),
                        examples |-> IF example_questions.items /= <<>>
                                     THEN Take(example_questions.items, 4)
                                     ELSE << <<"Explique", "os", "conceitos">> >>],
        llm |-> ca.llm,
        store |-> ca.store]

\* mutant: every topic is searched for
SearchQueriesUncapped(q, an) == <<q>> \o an.val.topics.items

\* search_queries[:3] with search_queries = [question] + analysis["topics"]
SearchQueries(q, an) == Take(<<q>> \o an.val.topics.items, 3)

\* the statement building search_queries raises KeyError when the analysis
\* has no "topics"
QueriesRaise(an) == "topics" \notin an.keys

\* mutant: results are told apart by their whole content
RECURSIVE UniqueByContent(_, _)
UniqueByContent(results, seen) ==
    IF results = <<>> THEN <<>>
    ELSE LET r == Head(results)
             h == r.content
         IN IF h \in seen THEN UniqueByContent(Tail(results), seen)
            ELSE <<r>> \o UniqueByContent(Tail(results), seen \cup {h})

\* the duplicate-removal loop: the first result of each content[:100] stays
\* (hash() of equal prefixes is equal; distinct prefixes are taken to hash
\* apart)
RECURSIVE Unique(_, _)
Unique(results, seen) ==
    IF results = <<>> THEN <<>>
    ELSE LET r == Head(results)
             h == Chars(r.content, 100)
         IN IF h \in seen THEN Unique(Tail(results), seen)
            ELSE <<r>> \o Unique(Tail(results), seen \cup {h})

\* the entries joined into `context`
Context(top_results) ==
    [i \in 1..Len(top_results) |->
        [source |-> top_results[i].metadata.file,
         content |-> Chars(top_results[i].content, 400)]]

FormatInstruction(fmt) ==
    CASE fmt = "text" -> "Provide a clear text explanation with examples."
      [] fmt = "video" -> "Explain as if creating a video tutorial, with step-by-step guidance."
      [] fmt = "exercises" -> "Include practical exercises and hands-on examples."
      [] fmt = "mixed" -> "Use a combination of explanation, examples, and practical exercises."
      [] OTHER -> "Provide a comprehensive explanation."

\* mutant: an unrecognised verbosity gets the sentence of "moderate"
VerbositySentenceModerate(v) ==
    CASE v = "concise" -> "Seja direto e objetivo. Evite explicacoes longas."
      [] v = "detailed" -> "Explique detalhadamente com multiplos exemplos e exercicios praticos."
      [] OTHER -> "Forneca uma explicacao equilibrada com exemplos praticos."

VerbositySentence(v) ==
    CASE v = "concise" -> "Seja direto e objetivo. Evite explicacoes longas."
      [] v = "moderate" -> "Forneca uma explicacao equilibrada com exemplos praticos."
      [] v = "detailed" -> "Explique detalhadamente com multiplos exemplos e exercicios praticos."
      [] OTHER -> "Forneca uma explicacao equilibrada."

VerbosityInstruction(qt) == VerbositySentence(Get(qt, "verbosity", "moderate"))

StyleSentence(st) ==
    CASE st = "list" -> "Responda em formato de lista clara e organizada."
      [] st = "conversational" -> "Use um tom conversacional e amigavel."
      [] st = "educational" -> "Use abordagem educacional com conceitos e exemplos."
      [] st = "tutorial" -> "Forneca um tutorial passo-a-passo detalhado."
      [] OTHER -> "Use abordagem educacional com conceitos e exemplos."

StyleInstruction(qt) == StyleSentence(Get(qt, "style", "educational"))

\* the f-string reads analysis['confidence'] and joins analysis['topics']
PromptRaises(an) ==
    \/ "confidence" \notin an.keys
    \/ "topics" \notin an.keys
    \/ JoinRaises(an.val.topics)

Prompt(q, fmt, qt, an, results) ==
    [question |-> q,
     type |-> Get(qt, "type", "technical"),
     verbosity |-> Get(qt, "verbosity", "moderate"),
     style |-> Get(qt, "style", "educational"),
     knowledge_level |-> an.val.knowledge_level,
     topics |-> an.val.topics.items,
     confidence |-> an.val.confidence,
     preferred_format |-> fmt,
     context |-> Context(Take(Unique(results, {}), 3)),
     instructions |-> <<FormatInstruction(fmt), VerbosityInstruction(qt),
                        StyleInstruction(qt)>>]

-----------------------------------------------------------------------------
(* generate_adaptive_response, step by step *)

Questions == { <<"What", "is", "HTML?">>, <<"Explain", "css">> }

Formats == {"text", "mixed"}

AnswerReplies ==
    [raises : {FALSE}, content : SeqsUpTo({"x"}, MaxReplyLen) \ {<<>>}]
    \cup {[raises |-> TRUE, content |-> <<>>]}

args == <<op, question, preferred_format, groq_client, collection,
          initial_results, top_k, n_results>>

locals == <<scope_validation, question_type, analysis, all_results, qi>>

logs == <<llmLog, replyLog, storeLog>>

returned == <<result, raised, failed>>

indexing == <<files, stateFile, chroma, idxLog, pre, edits>>

media == <<statusFile, pending, wpc, ppc, polled, written, mediaLog,
           openai_client, message, upc>>

\* no background media task and no poller is involved
NoMedia ==
    /\ statusFile = [kind |-> "absent"]
    /\ pending = <<>>
    /\ wpc = "none"
    /\ ppc = "idle"
    /\ polled = [kind |-> "absent"]
    /\ written = {}
    /\ mediaLog = <<>>
    /\ openai_client = FALSE
    /\ message = [audio_ready |-> FALSE, video_ready |-> FALSE, media_error |-> ""]
    /\ upc = "none"

\* no resources directory, state file or vector database is involved
NoIndexing ==
    /\ files = {}
    /\ stateFile = [kind |-> "absent"]
    /\ chroma = [exists |-> FALSE, docs |-> <<>>]
    /\ idxLog = <<>>
    /\ pre = NoValue
    /\ edits = 0

Init ==
    /\ op = "generate_adaptive_response"
    /\ pc = "entry"
    /\ question \in Questions
    /\ preferred_format \in Formats
    /\ groq_client \in BOOLEAN
    /\ collection \in Collections
    /\ initial_results = <<>>
    /\ top_k = 3
    /\ n_results = 5
    /\ scope_validation = EmptyDict
    /\ question_type = EmptyDict
    /\ analysis = EmptyDict
    /\ all_results = <<>>
    /\ qi = 1
    /\ result = NoValue
    /\ raised = FALSE
    /\ failed = ""
    /\ llmLog = <<>>
    /\ replyLog = <<>>
    /\ storeLog = <<>>
    /\ scored = 0
    /\ NoIndexing
    /\ NoMedia

\* a return statement
Return(v) ==
    /\ result' = v
    /\ raised' = FALSE
    /\ failed' = failed
    /\ pc' = "done"

\* mutant: no except clause, the exception reaches the caller
OnExceptionPropagates == [result |-> NoValue, raised |-> TRUE]

\* the except clause closing the try block of generate_adaptive_response
OnException == [result |-> ProblemGenerating, raised |-> FALSE]

Except(step) ==
    /\ result' = OnException.result
    /\ raised' = OnException.raised
    /\ failed' = step
    /\ pc' = "done"

Logged(outcome) ==
    /\ llmLog' = llmLog \o outcome.llm
    /\ storeLog' = storeLog \o outcome.store
    /\ UNCHANGED replyLog

\* mutant: the entry check on groq_client is missing
GenEntryUnchecked ==
    /\ op = "generate_adaptive_response"
    /\ pc = "entry"
    /\ pc' = "scope"
    /\ UNCHANGED <<media, indexing, scored, args, locals, logs, returned>>

\* if not groq_client: return the apology
GenEntry ==
    /\ op = "generate_adaptive_response"
    /\ pc = "entry"
    /\ IF ~groq_client
       THEN Return(NotConfigured)
       ELSE pc' = "scope" /\ UNCHANGED returned
    /\ UNCHANGED <<media, indexing, scored, args, locals, logs>>

\* mutant: the verdict is computed but the branch on it is missing
GenScopeUnbranched ==
    /\ pc = "scope"
    /\ \E reply \in Replies("scope") :
          LET o == check_question_scope(question, collection, groq_client, reply)
          IN /\ scope_validation' = o.value
             /\ Logged(o)
    /\ pc' = "classify"
    /\ UNCHANGED <<media, indexing, scored, args, question_type, analysis, all_results, qi, returned>>

\* scope_validation = check_question_scope(...) and the branch on it
GenScope ==
    /\ pc = "scope"
    /\ \E reply \in Replies("scope") :
          LET o == check_question_scope(question, collection, groq_client, reply)
          IN /\ scope_validation' = o.value
             /\ Logged(o)
             /\ pc' = IF ~Get(o.value, "in_scope", TRUE)
                      THEN "out_of_scope" ELSE "classify"
    /\ UNCHANGED <<media, indexing, scored, args, question_type, analysis, all_results, qi, returned>>

\* return generate_out_of_scope_response(question, collection, groq_client)
GenOutOfScope ==
    /\ pc = "out_of_scope"
    /\ \E reply \in Replies("content") :
          LET o == generate_out_of_scope_response(question, collection,
                                                  groq_client, reply)
          IN /\ Logged(o)
             /\ IF o.raises THEN Except("out_of_scope") ELSE Return(o.value)
    /\ UNCHANGED <<media, indexing, scored, args, locals>>

\* question_type = classify_question_type(question, groq_client)
GenClassify ==
    /\ pc = "classify"
    /\ \E reply \in Replies("classify") :
          LET o == classify_question_type(question, groq_client, reply)
          IN /\ question_type' = o.value
             /\ Logged(o)
    /\ pc' = "maturity"
    /\ UNCHANGED <<media, indexing, scored, args, scope_validation, analysis, all_results, qi, returned>>

\* analysis = analyze_question_maturity(...); if not analysis: return the
\* apology; search_queries = [question] + analysis["topics"]
GenMaturity ==
    /\ pc = "maturity"
    /\ \E reply \in Replies("maturity") :
          LET o == analyze_question_maturity(question, groq_client, reply)
          IN /\ analysis' = o.value
             /\ Logged(o)
             /\ IF o.value.keys = {} THEN Return(AnalysisUnavailable)
                ELSE IF QueriesRaise(o.value) THEN Except("retrieval")
                ELSE pc' = "retrieve" /\ UNCHANGED returned
    /\ UNCHANGED <<media, indexing, scored, args, scope_validation, question_type, all_results, qi>>

\* one round of: results = search_and_rerank(collection, query, 5, 3);
\* all_results.extend(results)
GenRetrieve ==
    /\ pc = "retrieve"
    /\ qi <= Len(SearchQueries(question, analysis))
    /\ LET o == search_and_rerank(collection,
                                  SearchQueries(question, analysis)[qi], 5, 3)
       IN /\ all_results' = all_results \o o.value
          /\ storeLog' = storeLog \o o.store
          /\ scored' = scored + o.scored
    /\ qi' = qi + 1
    /\ pc' = IF qi + 1 > Len(SearchQueries(question, analysis))
             THEN "answer" ELSE "retrieve"
    /\ UNCHANGED <<media, indexing, args, scope_validation, question_type, analysis, returned,
                   llmLog, replyLog>>

\* mutant: the final completion does not wait for the retrieval loop to end
GenAnswerEager ==
    /\ pc \in {"retrieve", "answer"}
    /\ IF PromptRaises(analysis)
       THEN Except("prompt") /\ UNCHANGED <<llmLog, replyLog>>
       ELSE \E reply \in AnswerReplies :
              /\ llmLog' = llmLog \o
                    <<Request("answer", Prompt(question, preferred_format,
                                               question_type, analysis,
                                               all_results))>>
              /\ replyLog' = <<reply>>
              /\ IF reply.raises THEN Except("completion")
                 ELSE Return([tag |-> "answer", content |-> reply.content])
    /\ UNCHANGED <<media, indexing, scored, args, locals, storeLog>>

\* duplicate removal, context, prompt, the final completion and its return
GenAnswer ==
    /\ pc = "answer"
    /\ IF PromptRaises(analysis)
       THEN Except("prompt") /\ UNCHANGED <<llmLog, replyLog>>
       ELSE \E reply \in AnswerReplies :
              /\ llmLog' = llmLog \o
                    <<Request("answer", Prompt(question, preferred_format,
                                               question_type, analysis,
                                               all_results))>>
              /\ replyLog' = <<reply>>
              /\ IF reply.raises THEN Except("completion")
                 ELSE Return([tag |-> "answer", content |-> reply.content])
    /\ UNCHANGED <<media, indexing, scored, args, locals, storeLog>>

Next ==
    \/ GenEntry
    \/ GenScope
    \/ GenOutOfScope
    \/ GenClassify
    \/ GenMaturity
    \/ GenRetrieve
    \/ GenAnswer

Spec == Init /\ [][Next]_vars

-----------------------------------------------------------------------------
(* The three analyses called directly, each call one step *)

NoCollection == [docs |-> <<>>, fails |-> FALSE]

AnalysisOps ==
    {"check_question_scope", "classify_question_type", "analyze_question_maturity",
     "analyze_indexed_content"}

InitAnalysis ==
    /\ op \in AnalysisOps
    /\ pc = "call"
    /\ question \in Questions
    /\ preferred_format = "text"
    /\ groq_client \in BOOLEAN
    /\ collection \in (IF op \in {"check_question_scope", "analyze_indexed_content"}
                       THEN Collections
                       ELSE {NoCollection})
    /\ initial_results = <<>>
    /\ top_k = 3
    /\ n_results = 5
    /\ scope_validation = EmptyDict
    /\ question_type = EmptyDict
    /\ analysis = EmptyDict
    /\ all_results = <<>>
    /\ qi = 1
    /\ result = NoValue
    /\ raised = FALSE
    /\ failed = ""
    /\ llmLog = <<>>
    /\ replyLog = <<>>
    /\ storeLog = <<>>
    /\ scored = 0
    /\ NoIndexing
    /\ NoMedia

\* the call's outcome reaches the caller; the reply is recorded if asked for
Returned(o, reply) ==
    /\ result' = o.value
    /\ raised' = FALSE
    /\ llmLog' = o.llm
    /\ replyLog' = IF o.llm /= <<>> THEN <<reply>> ELSE <<>>
    /\ storeLog' = o.store
    /\ pc' = "done"
    /\ UNCHANGED <<media, indexing, scored, args, locals, failed>>

CallCheckScope ==
    /\ op = "check_question_scope"
    /\ pc = "call"
    /\ \E reply \in Replies("scope") :
          Returned(check_question_scope(question, collection, groq_client, reply),
                   reply)

CallClassify ==
    /\ op = "classify_question_type"
    /\ pc = "call"
    /\ \E reply \in Replies("classify") :
          Returned(classify_question_type(question, groq_client, reply), reply)

CallMaturity ==
    /\ op = "analyze_question_maturity"
    /\ pc = "call"
    /\ \E reply \in Replies("maturity") :
          Returned(analyze_question_maturity(question, groq_client, reply), reply)

CallContent ==
    /\ op = "analyze_indexed_content"
    /\ pc = "call"
    /\ \E reply \in Replies("content") :
          Returned(analyze_indexed_content(collection, groq_client, reply), reply)

NextAnalysis ==
    \/ CallCheckScope
    \/ CallClassify
    \/ CallMaturity
    \/ CallContent

SpecAnalysis == InitAnalysis /\ [][NextAnalysis]_vars

-----------------------------------------------------------------------------
(* The prompt assembly of generate_adaptive_response (lines 91-146) applied *)
(* to a classification: any JSON object the classification may have        *)
(* returned, with or without a verbosity and a style                       *)

Classifications ==
    {[keys |-> DOMAIN rec, val |-> rec] :
        rec \in [type : {"technical"},
                 verbosity : {"concise", "moderate", "detailed", "verbose"},
                 style : {"list", "conversational", "educational", "tutorial", "formal"}]
              \cup [type : {"technical"},
                    verbosity : {"concise", "moderate", "detailed", "verbose"}]
              \cup [type : {"technical"},
                    style : {"list", "conversational", "educational", "tutorial", "formal"}]
              \cup [type : {"technical"}]}

PromptFormats == {"text", "video", "exercises", "mixed", "audio"}

InitPrompt ==
    /\ op = "prompt_assembly"
    /\ pc = "call"
    /\ question = <<"What", "is", "HTML?">>
    /\ preferred_format \in PromptFormats
    /\ groq_client = TRUE
    /\ collection = NoCollection
    /\ initial_results = <<>>
    /\ top_k = 3
    /\ n_results = 5
    /\ scope_validation = EmptyDict
    /\ question_type \in Classifications
    /\ analysis = MaturityNoClient
    /\ all_results = <<>>
    /\ qi = 1
    /\ result = NoValue
    /\ raised = FALSE
    /\ failed = ""
    /\ llmLog = <<>>
    /\ replyLog = <<>>
    /\ storeLog = <<>>
    /\ scored = 0
    /\ NoIndexing
    /\ NoMedia

\* format_instruction, verbosity_instruction, style_instruction and the prompt
AssemblePrompt ==
    /\ op = "prompt_assembly"
    /\ pc = "call"
    /\ result' = [tag |-> "prompt",
                  prompt |-> Prompt(question, preferred_format, question_type,
                                    analysis, all_results)]
    /\ pc' = "done"
    /\ UNCHANGED <<media, indexing, scored, args, locals, logs, raised, failed>>

NextPrompt == AssemblePrompt

SpecPrompt == InitPrompt /\ [][NextPrompt]_vars

-----------------------------------------------------------------------------
(* The retrieval functions called directly, each call one step *)

QueryWords == {"HTML", "exercises", "video", "Explain", "is"}

SearchOps == {"search_content", "search_and_rerank"}

InitSearch ==
    /\ op \in SearchOps \cup {"rerank_results"}
    /\ pc = "call"
    /\ question \in (IF op = "rerank_results"
                     THEN SeqsUpTo(QueryWords, MaxQueryWords)
                     ELSE Questions)
    /\ preferred_format = "text"
    /\ groq_client = FALSE
    /\ collection \in (IF op \in SearchOps THEN Collections ELSE {NoCollection})
    /\ initial_results \in (IF op = "rerank_results"
                            THEN SeqsUpTo(Documents, MaxResults)
                            ELSE {<<>>})
    /\ top_k \in (IF op = "search_content" THEN {3} ELSE 0..MaxTopK)
    /\ n_results \in (IF op \in SearchOps THEN 1..MaxResults ELSE {5})
    /\ scope_validation = EmptyDict
    /\ question_type = EmptyDict
    /\ analysis = EmptyDict
    /\ all_results = <<>>
    /\ qi = 1
    /\ result = NoValue
    /\ raised = FALSE
    /\ failed = ""
    /\ llmLog = <<>>
    /\ replyLog = <<>>
    /\ storeLog = <<>>
    /\ scored = 0
    /\ NoIndexing
    /\ NoMedia

Found(value, store, calls) ==
    /\ result' = value
    /\ raised' = FALSE
    /\ storeLog' = store
    /\ scored' = calls
    /\ pc' = "done"
    /\ UNCHANGED <<media, indexing, args, locals, failed, llmLog, replyLog>>

CallSearch ==
    /\ op = "search_content"
    /\ pc = "call"
    /\ LET o == search_content(collection, question, n_results)
       IN Found(o.value, o.store, 0)

CallRerank ==
    /\ op = "rerank_results"
    /\ pc = "call"
    /\ Found(rerank_results(question, initial_results, top_k), <<>>, 1)

CallSearchAndRerank ==
    /\ op = "search_and_rerank"
    /\ pc = "call"
    /\ LET o == search_and_rerank(collection, question, n_results, top_k)
       IN Found(o.value, o.store, o.scored)

NextSearch ==
    \/ CallSearch
    \/ CallRerank
    \/ CallSearchAndRerank

SpecSearch == InitSearch /\ [][NextSearch]_vars

-----------------------------------------------------------------------------
(* core/indexing.py and main.setup_content_indexing: the resources         *)
(* directory, the saved index state and the re-index run.  A file is       *)
(* [name, mtime, ok]: ok is FALSE when the file cannot be processed        *)
(* (unreadable or corrupt).  A dict is the sequence of its items in        *)
(* insertion order.                                                        *)

FileNames == {"html.txt", "css.pdf", "quiz.json", "notes.md"}

\* file_path.suffix.lower()
Suffix(name) ==
    CASE name = "html.txt" -> ".txt"
      [] name = "css.pdf" -> ".pdf"
      [] name = "quiz.json" -> ".json"
      [] OTHER -> ".md"

\* the directories of at most n files, no name twice
Directories(n) ==
    UNION {{{[name |-> x, mtime |-> a[x].mtime, ok |-> a[x].ok] : x \in names} :
               a \in [names -> [mtime : 1..MaxMtime, ok : BOOLEAN]]} :
           names \in {ns \in SUBSET FileNames : Cardinality(ns) <= n}}

\* resources_path.iterdir(): the files in an order the platform chooses
Iterdir(dir) ==
    {s \in [1..Cardinality(dir) -> dir] :
        \A i, j \in 1..Cardinality(dir) : i /= j => s[i] /= s[j]}

\* get_resources_state: name -> st_mtime, filled in iteration order
get_resources_state(listing) ==
    [i \in 1..Len(listing) |-> <<listing[i].name, listing[i].mtime>>]

\* the content of the state file
Absent == [kind |-> "absent"]
Truncated == [kind |-> "truncated"]
Undecodable == [kind |-> "undecodable"]

\* save_index_state: json.dump writes the items in the dict's order
save_index_state(state) == [kind |-> "json", items |-> state]

\* load_index_state: {} when the file is absent or json.load raises
\* JSONDecodeError (text that is not JSON, the empty file included); bytes
\* the text codec cannot decode raise UnicodeDecodeError, which is not caught
load_index_state(file) ==
    CASE file.kind = "absent" -> [raises |-> FALSE, value |-> <<>>]
      [] file.kind = "json" -> [raises |-> FALSE, value |-> file.items]
      [] file.kind = "truncated" -> [raises |-> FALSE, value |-> <<>>]
      [] OTHER -> [raises |-> TRUE, value |-> <<>>]

\* mutant: dicts compare as lists of items
DictDiffersOrdered(a, b) == a /= b

\* current_resources_state != last_indexed_state: dicts are equal when they
\* hold the same items, whatever the insertion order
DictDiffers(a, b) == Range(a) /= Range(b)

\* the documents one processor call contributes to the list: what is
\* appended or extended, or nothing when the call raises into the except
\* clause of process_all_files (the image and video processors raise as the
\* JSON processor does)
Processed(f) ==
    CASE Suffix(f.name) = ".txt" ->
           \* process_text_file returns None on any error; it is appended
           IF f.ok THEN <<Doc(<<"Explain", "HTML", "is">>, "text", f.name)>>
           ELSE <<NoValue>>
      [] Suffix(f.name) = ".pdf" ->
           \* process_pdf_file returns [] on any error
           IF f.ok THEN <<Doc(<<"is", "css">>, "pdf", f.name)>> ELSE <<>>
      [] Suffix(f.name) = ".json" ->
           \* process_json_file raises on unreadable or malformed JSON
           IF f.ok
           THEN <<Doc(<<"HTML", "exercises", "video", "explain">>, "exercise",
                      f.name)>>
           ELSE <<>>
      [] OTHER -> <<>>

RECURSIVE process_all_files(_)
process_all_files(listing) ==
    IF listing = <<>> THEN <<>>
    ELSE Processed(Head(listing)) \o process_all_files(Tail(listing))

\* index_documents: doc["content"] raises on a None document before anything
\* is added; collection.add raises when the backend fails
index_documents(docs, documents, addFails) ==
    IF \E i \in 1..Len(documents) : documents[i] = NoValue
    THEN [raises |-> TRUE, docs |-> docs, failed |-> "doc[content]"]
    ELSE IF addFails
    THEN [raises |-> TRUE, docs |-> docs, failed |-> "collection.add"]
    ELSE [raises |-> FALSE, docs |-> docs \o documents, failed |-> ""]

\* mutant: the state is saved before the documents are processed and indexed
ReindexSavingFirst(listing, db, file, addFails) ==
    LET current == get_resources_state(listing)
        deleted == IF db.exists THEN <<"delete_collection">> ELSE <<>>
        documents == process_all_files(listing)
        added == IF documents /= <<>>
                 THEN index_documents(<<>>, documents, addFails)
                 ELSE [raises |-> FALSE, docs |-> <<>>, failed |-> ""]
    IN [raised |-> added.raises,
        failed |-> added.failed,
        chroma |-> [exists |-> TRUE, docs |-> added.docs],
        stateFile |-> save_index_state(current),
        log |-> <<"list_collections">> \o deleted
                \o <<"save_index_state", "get_or_create_collection",
                     "process_all_files">>
                \o (IF documents /= <<>> THEN <<"index_documents">> ELSE <<>>)]

\* the re-index branch of setup_content_indexing (main.py 107-129)
Reindex(listing, db, file, addFails) ==
    LET current == get_resources_state(listing)
        deleted == IF db.exists THEN <<"delete_collection">> ELSE <<>>
        documents == process_all_files(listing)
        added == IF documents /= <<>>
                 THEN index_documents(<<>>, documents, addFails)
                 ELSE [raises |-> FALSE, docs |-> <<>>, failed |-> ""]
    IN [raised |-> added.raises,
        failed |-> added.failed,
        chroma |-> [exists |-> TRUE, docs |-> added.docs],
        stateFile |-> IF added.raises THEN file ELSE save_index_state(current),
        log |-> <<"list_collections">> \o deleted
                \o <<"get_or_create_collection", "process_all_files">>
                \o (IF documents /= <<>> THEN <<"index_documents">> ELSE <<>>)
                \o (IF added.raises THEN <<>> ELSE <<"save_index_state">>)]

\* the up-to-date branch (main.py 130-132)
UpToDate(db, file) ==
    [raised |-> FALSE,
     failed |-> "",
     chroma |-> [exists |-> TRUE, docs |-> db.docs],
     stateFile |-> file,
     log |-> <<"get_or_create_collection">>]

\* mutant: every run re-indexes
setup_content_indexing_always(listing, db, file, addFails) ==
    Reindex(listing, db, file, addFails)

\* setup_content_indexing (main.py 84-134; main() 187-220 repeats it)
setup_content_indexing(listing, db, file, addFails) ==
    LET last == load_index_state(file)
    IN IF last.raises
       THEN [raised |-> TRUE, failed |-> "load_index_state", chroma |-> db,
             stateFile |-> file, log |-> <<>>]
       ELSE IF DictDiffers(get_resources_state(listing), last.value)
       THEN Reindex(listing, db, file, addFails)
       ELSE UpToDate(db, file)

InitIndexing ==
    /\ op = "setup_content_indexing"
    /\ pc = "idle"
    /\ question = <<>>
    /\ preferred_format = "text"
    /\ groq_client = FALSE
    /\ collection = NoCollection
    /\ initial_results = <<>>
    /\ top_k = 3
    /\ n_results = 5
    /\ scope_validation = EmptyDict
    /\ question_type = EmptyDict
    /\ analysis = EmptyDict
    /\ all_results = <<>>
    /\ qi = 1
    /\ result = NoValue
    /\ raised = FALSE
    /\ failed = ""
    /\ llmLog = <<>>
    /\ replyLog = <<>>
    /\ storeLog = <<>>
    /\ scored = 0
    /\ files \in {d \in Directories(MaxFiles) : \A f \in d : f.mtime = 1}
    /\ stateFile = Absent
    /\ chroma = [exists |-> FALSE, docs |-> <<>>]
    /\ idxLog = <<>>
    /\ pre = NoValue
    /\ edits = 0
    /\ NoMedia

pipeline == <<question, preferred_format, groq_client, collection,
              initial_results, top_k, n_results, locals, logs, scored, result,
              op>>

\* one run of setup_content_indexing
RunSetup ==
    /\ op = "setup_content_indexing"
    /\ \E listing \in Iterdir(files), addFails \in BOOLEAN :
          LET o == setup_content_indexing(listing, chroma, stateFile, addFails)
          IN /\ chroma' = o.chroma
             /\ stateFile' = o.stateFile
             /\ idxLog' = o.log
             /\ raised' = o.raised
             /\ failed' = o.failed
    /\ pre' = [files |-> files, stateFile |-> stateFile, chroma |-> chroma]
    /\ pc' = "done"
    /\ UNCHANGED <<media, pipeline, files, edits>>

\* something outside the program changes the directory or the state file
Edited(dir, file) ==
    /\ edits < MaxEdits
    /\ edits' = edits + 1
    /\ files' = dir
    /\ stateFile' = file
    /\ pc' = "idle"
    /\ UNCHANGED <<media, pipeline, chroma, idxLog, pre, raised, failed>>

TouchFile ==
    \E f \in files :
        /\ f.mtime < MaxMtime
        /\ Edited((files \ {f}) \cup {[f EXCEPT !.mtime = f.mtime + 1]}, stateFile)

AddFile ==
    \E f \in [name : FileNames, mtime : {1}, ok : BOOLEAN] :
        /\ Cardinality(files) < MaxFiles
        /\ \A g \in files : g.name /= f.name
        /\ Edited(files \cup {f}, stateFile)

RemoveFile == \E f \in files : Edited(files \ {f}, stateFile)

CorruptStateFile ==
    /\ stateFile.kind = "json"
    /\ \E file \in {Truncated, Undecodable} : Edited(files, file)

NextIndexing ==
    \/ RunSetup
    \/ TouchFile
    \/ AddFile
    \/ RemoveFile
    \/ CorruptStateFile

SpecIndexing == InitIndexing /\ [][NextIndexing]_vars

-----------------------------------------------------------------------------
(* core/async_media.py: the background media task of one interaction and   *)
(* a poller of its status file.  The status file is absent or holds the    *)
(* JSON text written so far, a sequence of tokens: "{", then key and value *)
(* tokens in turn, then "}".  A poll reads the text the file holds at that *)
(* moment in one piece.                                                    *)

\* json.dump of a dict whose values are the JSON literals given
Encode(keys, val) ==
    <<"{">> \o [i \in 1..(2 * Len(keys)) |->
                   IF i % 2 = 1 THEN keys[(i + 1) \div 2] ELSE val[keys[i \div 2]]]
            \o <<"}">>

AudioRecord ==
    Encode(<<"audio_ready", "audio_path">>,
           [audio_ready |-> "true", audio_path |-> "audio_1.mp3"])

FullRecord ==
    Encode(<<"audio_ready", "audio_path", "video_ready", "video_path">>,
           [audio_ready |-> "true", audio_path |-> "audio_1.mp3",
            video_ready |-> "true", video_path |-> "video_1.mp4"])

\* {"error": str(e)}
ErrorRecord(e) == Encode(<<"error">>, [error |-> e])

\* json.load: the dict of a complete object text; JSONDecodeError on the
\* empty text and on every text that stops short of the closing "}"
Decode(text) ==
    IF /\ Len(text) >= 2
       /\ text[1] = "{"
       /\ text[Len(text)] = "}"
       /\ Len(text) % 2 = 0
       /\ \A i \in 2..(Len(text) - 1) : text[i] \notin {"{", "}"}
    THEN [error |-> "",
          value |-> [keys |-> {text[2 * i] : i \in 1..((Len(text) - 2) \div 2)},
                     val |-> [k \in {text[2 * i] : i \in 1..((Len(text) - 2) \div 2)} |->
                                 text[1 + CHOOSE j \in 2..(Len(text) - 1) :
                                               j % 2 = 0 /\ text[j] = k]]]]
    ELSE [error |-> "JSONDecodeError", value |-> EmptyDict]

\* {"audio_ready": False, "video_ready": False}
NotReady == Dict([audio_ready |-> "false", video_ready |-> "false"])

\* mutant: only the missing file is caught
check_media_status_uncaught(file) ==
    IF file.kind = "absent"
    THEN [raises |-> FALSE, value |-> NotReady]
    ELSE LET loaded == Decode(file.text)
         IN IF loaded.error = "" THEN [raises |-> FALSE, value |-> loaded.value]
            ELSE [raises |-> TRUE, value |-> NotReady]

\* check_media_status from the open on (lines 103-107): file is what the
\* poller finds when it opens the status file
check_media_status(file) ==
    IF file.kind = "absent"
    THEN [raises |-> FALSE, value |-> NotReady]     \* FileNotFoundError
    ELSE LET loaded == Decode(file.text)
         IN IF loaded.error = "" THEN [raises |-> FALSE, value |-> loaded.value]
            ELSE IF loaded.error \in {"JSONDecodeError", "FileNotFoundError"}
            THEN [raises |-> FALSE, value |-> NotReady]
            ELSE [raises |-> TRUE, value |-> NotReady]

\* ui/chat_interface.py, lines 277-290: the assistant message appended to the
\* chat history just before the media thread is started
NewMessage == [audio_ready |-> FALSE, video_ready |-> FALSE, media_error |-> ""]

InitMedia ==
    /\ op = "generate_media_async"
    /\ pc = "idle"
    /\ question = <<>>
    /\ preferred_format = "text"
    /\ groq_client = FALSE
    /\ collection = NoCollection
    /\ initial_results = <<>>
    /\ top_k = 3
    /\ n_results = 5
    /\ scope_validation = EmptyDict
    /\ question_type = EmptyDict
    /\ analysis = EmptyDict
    /\ all_results = <<>>
    /\ qi = 1
    /\ result = NoValue
    /\ raised = FALSE
    /\ failed = ""
    /\ llmLog = <<>>
    /\ replyLog = <<>>
    /\ storeLog = <<>>
    /\ scored = 0
    /\ NoIndexing
    /\ statusFile = [kind |-> "absent"]
    /\ pending = <<>>
    /\ wpc = "generate_audio"
    /\ ppc = "idle"
    /\ polled = [kind |-> "absent"]
    /\ written = {}
    /\ mediaLog = <<"generate_audio">>
    /\ openai_client \in BOOLEAN
    /\ message = NewMessage
    /\ upc = "check_media_status"

\* what the media task and the poller leave alone
offstage == <<pc, args, locals, logs, scored, failed, indexing>>

\* a step of the background thread
Writer(at, log) ==
    /\ wpc' = at
    /\ mediaLog' = mediaLog \o log
    /\ UNCHANGED <<offstage, ppc, polled, result, raised, openai_client,
                   message, upc>>

\* generate_audio returns the path of the audio file (lines 43-48); without
\* a client it raises before any request (audio_generator.py, lines 47-48)
AudioReturns ==
    /\ wpc = "generate_audio"
    /\ openai_client
    /\ Writer("open_audio", <<"audio_returned">>)
    /\ UNCHANGED <<statusFile, pending, written>>

\* generate_audio raises: no client, or the speech request failed
AudioRaises ==
    /\ wpc = "generate_audio"
    /\ Writer("open_error", <<"audio_raised">>)
    /\ UNCHANGED <<statusFile, pending, written>>

\* open(status_file, "w"): the file exists and is empty; json.dump has the
\* whole record to write (lines 52, 66, 84)
OpenStatus ==
    /\ wpc \in {"open_audio", "open_full", "open_error"}
    /\ statusFile' = [kind |-> "text", text |-> <<>>]
    /\ pending' = CASE wpc = "open_audio" -> AudioRecord
                    [] wpc = "open_full" -> FullRecord
                    [] OTHER -> ErrorRecord(mediaLog[Len(mediaLog)])
    /\ Writer(CASE wpc = "open_audio" -> "dump_audio"
                [] wpc = "open_full" -> "dump_full"
                [] OTHER -> "dump_error", <<>>)
    /\ UNCHANGED written

\* the next piece of the JSON text reaches the file
WriteChunk ==
    /\ wpc \in {"dump_audio", "dump_full", "dump_error"}
    /\ pending /= <<>>
    /\ statusFile' = [kind |-> "text", text |-> Append(statusFile.text, Head(pending))]
    /\ pending' = Tail(pending)
    /\ written' = IF Len(pending) = 1
                  THEN written \cup {Append(statusFile.text, Head(pending))}
                  ELSE written
    /\ Writer(wpc, <<>>)

\* the with block ends: the record is on file (lines 53-54, 75-76, 85)
CloseStatus ==
    /\ wpc \in {"dump_audio", "dump_full", "dump_error"}
    /\ pending = <<>>
    /\ Writer(CASE wpc = "dump_audio" -> "call_video"
                [] OTHER -> "done",
              CASE wpc = "dump_audio" -> <<"audio_record">>
                [] wpc = "dump_full" -> <<"full_record">>
                [] OTHER -> <<"error_record">>)
    /\ UNCHANGED <<statusFile, pending, written>>

\* mutant: the video is started as soon as the audio file exists
CallVideoEarly ==
    /\ wpc = "open_audio"
    /\ Writer("generate_video", <<"generate_video">>)
    /\ UNCHANGED <<statusFile, pending, written>>

\* mutant: a failed video generation is tried once more
VideoRaisesRetrying ==
    /\ wpc = "generate_video"
    /\ Writer(IF \E i \in 1..Len(mediaLog) : mediaLog[i] = "video_raised"
              THEN "open_error" ELSE "call_video", <<"video_raised">>)
    /\ UNCHANGED <<statusFile, pending, written>>

\* generate_video is called with the audio file (lines 57-63)
CallVideo ==
    /\ wpc = "call_video"
    /\ Writer("generate_video", <<"generate_video">>)
    /\ UNCHANGED <<statusFile, pending, written>>

VideoReturns ==
    /\ wpc = "generate_video"
    /\ Writer("open_full", <<"video_returned">>)
    /\ UNCHANGED <<statusFile, pending, written>>

VideoRaises ==
    /\ wpc = "generate_video"
    /\ Writer("open_error", <<"video_raised">>)
    /\ UNCHANGED <<statusFile, pending, written>>

\* a step of the poller
Poller(at, found, value, exc) ==
    /\ ppc' = at
    /\ polled' = found
    /\ result' = value
    /\ raised' = exc
    /\ upc' = IF at = "idle" THEN "update_message" ELSE upc
    /\ UNCHANGED <<offstage, statusFile, pending, wpc, written, mediaLog,
                   openai_client, message>>

\* check_media_status, lines 99-101: the exists test
PollExists ==
    /\ upc = "check_media_status"
    /\ ppc = "idle"
    /\ IF statusFile.kind = "absent"
       THEN Poller("idle", statusFile, NotReady, FALSE)
       ELSE Poller("open", polled, result, raised)

\* check_media_status, lines 103-107: open, json.load, return
PollRead ==
    /\ ppc = "open"
    /\ LET o == check_media_status(statusFile)
       IN Poller("idle", statusFile, o.value, o.raises)

\* a step of the chat interface's script outside check_media_status
Interface(at, msg) ==
    /\ upc' = at
    /\ message' = msg
    /\ UNCHANGED <<offstage, statusFile, pending, wpc, written, mediaLog,
                   openai_client, ppc, polled, result, raised>>

\* media_status.get(key) is truthy
Truthy(media_status, key) ==
    key \in media_status.keys /\ media_status.val[key] \notin {"false", "null", ""}

\* mutant: the message shows what the last status said
update_message_unlatched(msg, media_status) ==
    [audio_ready |-> Truthy(media_status, "audio_ready"),
     video_ready |-> Truthy(media_status, "video_ready"),
     media_error |-> IF Truthy(media_status, "error")
                     THEN media_status.val["error"] ELSE msg.media_error]

\* ui/chat_interface.py, lines 153-163: the message takes over what the
\* status says is ready, and the error text if the status has one
update_message(msg, media_status) ==
    [audio_ready |-> msg.audio_ready \/ Truthy(media_status, "audio_ready"),
     video_ready |-> msg.video_ready \/ Truthy(media_status, "video_ready"),
     media_error |-> IF Truthy(media_status, "error")
                     THEN media_status.val["error"] ELSE msg.media_error]

\* lines 232-237: the message counts as pending media
pending_media(msg) == ~msg.audio_ready \/ ~msg.video_ready

UpdateMessage ==
    /\ upc = "update_message"
    /\ Interface("pending_media", update_message(message, result))

\* lines 239-245: sleep and rerun while media is pending, else go on to
\* the chat input
CheckPending ==
    /\ upc = "pending_media"
    /\ Interface(IF pending_media(message) THEN "sleep" ELSE "chat_input", message)

\* time.sleep(5); st.rerun(): the script runs again from the top
Rerun ==
    /\ upc = "sleep"
    /\ Interface("check_media_status", message)

NextMedia ==
    \/ AudioReturns
    \/ AudioRaises
    \/ OpenStatus
    \/ WriteChunk
    \/ CloseStatus
    \/ CallVideo
    \/ VideoReturns
    \/ VideoRaises
    \/ PollExists
    \/ PollRead
    \/ UpdateMessage
    \/ CheckPending
    \/ Rerun

SpecMedia == InitMedia /\ [][NextMedia]_vars

\* the steps of the background thread, and those of the interface's script
WriterNext ==
    \/ AudioReturns
    \/ AudioRaises
    \/ OpenStatus
    \/ WriteChunk
    \/ CloseStatus
    \/ CallVideo
    \/ VideoReturns
    \/ VideoRaises

InterfaceNext ==
    \/ PollExists
    \/ PollRead
    \/ UpdateMessage
    \/ CheckPending
    \/ Rerun

\* both the thread and the script keep running: neither waits for the other
\* and every call they make returns or raises
SpecMediaLive ==
    /\ InitMedia
    /\ [][NextMedia]_vars
    /\ WF_vars(WriterNext)
    /\ WF_vars(InterfaceNext)

-----------------------------------------------------------------------------
(* Properties of generate_adaptive_response (checked under Spec) *)

Purposes(log) == {log[i].purpose : i \in 1..Len(log)}

Finished == op = "generate_adaptive_response" /\ pc = "done"

\* C1: whatever the collection, the question and the preferred format, a call
\* without a completion client returns the 'service not configured' apology
\* and issues no vector store call and no completion request; none of the
\* later steps is ever entered.
C1_NoClientShortCircuit ==
    (op = "generate_adaptive_response" /\ ~groq_client) =>
        /\ pc \in {"entry", "done"}
        /\ llmLog = <<>>
        /\ storeLog = <<>>
        /\ pc = "done" => result = NotConfigured /\ ~raised

\* C1 witness: a call without a client, on a non-empty collection, has returned the apology
C1_Witness ==
    Finished /\ ~groq_client /\ result = NotConfigured /\ collection.docs /= <<>>

\* C2: with a completion client the call never raises; when a step's
\* exception reaches the try block the value returned is the 'problem
\* generating the response' apology, which differs from the 'service not
\* configured' apology, and the latter is never returned with a client.
C2_FailuresBecomeApology ==
    (op = "generate_adaptive_response" /\ groq_client) =>
        /\ ~raised
        /\ ProblemGenerating /= NotConfigured
        /\ pc = "done" =>
              /\ result.tag \in {"answer", "out_of_scope", "apology"}
              /\ result /= NotConfigured
              /\ failed /= "" => result = ProblemGenerating
        /\ pc /= "done" => failed = ""

\* C2 witness: prompt assembly raised (analysis without confidence) and the apology came back
C2_Witness ==
    Finished /\ groq_client /\ failed = "prompt" /\ result = ProblemGenerating

InScope == Get(scope_validation, "in_scope", TRUE)

ScopeChecked ==
    op = "generate_adaptive_response" /\ pc \notin {"entry", "scope"} /\ groq_client

\* after an out-of-scope verdict: no classification, maturity or answer
\* request, and no search besides the one the scope check ran
NoInScopeStep ==
    /\ Purposes(llmLog) \subseteq {"scope", "content"}
    /\ \A i \in 2..Len(storeLog) : storeLog[i].call = "get"

\* C6 as stated: after a verdict with in_scope = false the call returns the
\* out-of-scope template embedding the question, having called
\* analyze_indexed_content and none of the in-scope steps.
C6_AlwaysTemplate ==
    (ScopeChecked /\ ~InScope) =>
        /\ pc \in {"out_of_scope", "done"}
        /\ NoInScopeStep
        /\ pc = "done" =>
              /\ GetCall(30) \in Range(storeLog)
              /\ result.tag = "out_of_scope"
              /\ result.question = question

\* C6 (amended): after a verdict with in_scope = false the call takes the
\* out-of-scope branch: it calls analyze_indexed_content and none of the
\* in-scope steps, and returns the out-of-scope template embedding the
\* question, or the 'problem generating the response' apology when rendering
\* the template raised.
C6_OutOfScopeBranch ==
    (ScopeChecked /\ ~InScope) =>
        /\ pc \in {"out_of_scope", "done"}
        /\ NoInScopeStep
        /\ pc = "done" =>
              /\ GetCall(30) \in Range(storeLog)
              /\ \/ result.tag = "out_of_scope" /\ result.question = question
                 \/ result = ProblemGenerating /\ failed = "out_of_scope"

\* C6 witness: the completion service judged the question out of scope and the template came back
C6_Witness ==
    /\ Finished /\ groq_client /\ ~InScope
    /\ scope_validation /= ScopeNoContent
    /\ result.tag = "out_of_scope"
    /\ result.question = question

-----------------------------------------------------------------------------
(* Properties of the analyses called directly (checked under SpecAnalysis) *)

ScopeDone == op = "check_question_scope" /\ pc = "done"

ClassifyDone == op = "classify_question_type" /\ pc = "done"

MaturityDone == op = "analyze_question_maturity" /\ pc = "done"

\* search(collection, question, 5) gives the empty sequence
SearchEmpty == search_content(collection, question, 5).value = <<>>

\* the text holds no "{" followed later by a "}"
NoSpan(text) ==
    ~ \E i, j \in 1..Len(text) : i < j /\ text[i] = "{" /\ text[j] = "}"

\* the completion call raised, its text holds no {...} span, or the span from
\* the first "{" to the last "}" is no JSON object
VerdictFails(reply) ==
    \/ reply.raises
    \/ NoSpan(reply.content)
    \/ ~json_loads(json_match(reply.content).group).ok

Has(d, k, v) == k \in d.keys /\ d.val[k] = v

C5_FailOpen ==
    (ScopeDone /\ groq_client /\ ~SearchEmpty) =>
        /\ ~raised
        /\ Len(replyLog) = 1
        /\ VerdictFails(replyLog[1]) =>
              Has(result, "in_scope", TRUE) /\ Has(result, "confidence", 3)

\* C5 witness: a reply with a {...} span that is no JSON gave the fail-open verdict
C5_Witness ==
    /\ ScopeDone /\ groq_client /\ ~SearchEmpty
    /\ Len(replyLog) = 1
    /\ ~replyLog[1].raises
    /\ ~NoSpan(replyLog[1].content)
    /\ VerdictFails(replyLog[1])
    /\ Has(result, "confidence", 3)

\* C7: classify_question_type returns exactly {technical, detailed,
\* educational} without a client, and technical / moderate / educational when
\* the completion call raises or yields no parsable JSON; the two defaults
\* differ in verbosity and nothing is raised.
C7_ClassifyDefaults ==
    ClassifyDone =>
        /\ ~raised
        /\ ~groq_client =>
              result = Dict([type |-> "technical", verbosity |-> "detailed",
                             style |-> "educational"])
        /\ (groq_client /\ VerdictFails(replyLog[1])) =>
              /\ Has(result, "type", "technical")
              /\ Has(result, "verbosity", "moderate")
              /\ Has(result, "style", "educational")
        /\ ClassifyNoClient.val.verbosity /= ClassifyFailed.val.verbosity

\* C7 witness: a reply without parsable JSON gave the moderate default
C7_Witness ==
    /\ ClassifyDone /\ groq_client
    /\ ~replyLog[1].raises
    /\ VerdictFails(replyLog[1])
    /\ Has(result, "verbosity", "moderate")

\* C8: analyze_question_maturity returns {intermediate, [general], 0.5}
\* without a client, and {intermediate, [general], 0.3} with a reasoning that
\* cites the failure when the completion call raises, its text holds no {...}
\* span, or the span is no JSON; nothing is raised.
C8_MaturityDefaults ==
    MaturityDone =>
        /\ ~raised
        /\ ~groq_client =>
              /\ Has(result, "knowledge_level", "intermediate")
              /\ Has(result, "topics", StrList(<< <<"general">> >>))
              /\ Has(result, "confidence", 5)
        /\ (groq_client /\ VerdictFails(replyLog[1])) =>
              /\ Has(result, "knowledge_level", "intermediate")
              /\ Has(result, "topics", StrList(<< <<"general">> >>))
              /\ Has(result, "confidence", 3)
              /\ "reasoning" \in result.keys
              /\ result.val.reasoning \in
                    {"Analysis failed: completion error",
                     "Analysis failed: No valid JSON found in response",
                     "Analysis failed: JSONDecodeError"}

\* C8 witness: a reply without a {...} span gave the 0.3 default
C8_Witness ==
    /\ MaturityDone /\ groq_client
    /\ ~replyLog[1].raises
    /\ NoSpan(replyLog[1].content)
    /\ Has(result, "confidence", 3)

-----------------------------------------------------------------------------
(* Properties of the retrieval functions (checked under SpecSearch) *)

SearchDone == op = "search_content" /\ pc = "done"

RerankDone == op = "rerank_results" /\ pc = "done"

\* C9: search_content issues exactly one nearest-neighbour lookup and never
\* raises; when the lookup fails it returns the empty sequence, otherwise one
\* {content, metadata} result per hit, in the order the store gave them.
C9_SearchOneLookup ==
    SearchDone =>
        /\ ~raised
        /\ storeLog = <<QueryCall(question, n_results)>>
        /\ LET hits == StoreQuery(collection, question, n_results)
           IN IF hits.raises THEN result = <<>>
              ELSE /\ Len(result) = Len(hits.documents)
                   /\ \A i \in 1..Len(result) :
                         /\ result[i].content = hits.documents[i]
                         /\ result[i].metadata = hits.metadatas[i]

\* C9 witness: two hits came back, ranked otherwise than they are stored
C9_Witness ==
    /\ SearchDone /\ ~collection.fails
    /\ Len(result) = 2
    /\ result[1] /= collection.docs[1]

\* the number of distinct lower-cased tokens common to query and content
CommonTokens(query, content) ==
    Cardinality({w \in {Lower(query[i]) : i \in 1..Len(query)} :
                    \E j \in 1..Len(content) : Lower(content[j]) = w})

\* the type bonus as the claim words it, in tenths
ClaimedTypeBonus(query, type) ==
    CASE type = "exercise" /\ (\/ ContainsTerm(query, "exercise")
                               \/ ContainsTerm(query, "practice")
                               \/ ContainsTerm(query, "question")) -> 2
      [] type = "video" /\ (\/ ContainsTerm(query, "video")
                            \/ ContainsTerm(query, "watch")
                            \/ ContainsTerm(query, "tutorial")) -> 2
      [] type = "text" /\ (\/ ContainsTerm(query, "explain")
                           \/ ContainsTerm(query, "definition")
                           \/ ContainsTerm(query, "concept")) -> 1
      [] OTHER -> 0

\* C10: every result rerank_results returns carries the score
\* 0.8 + min(0.1 * n, 0.3) + typeBonus, n being the number of distinct
\* lower-cased tokens common to query and content (stored as
\* keyword_matches); every score lies between 0.8 and 1.3.
C10_ScoreFormula ==
    RerankDone =>
        \A i \in 1..Len(result) :
            LET n == CommonTokens(question, result[i].content)
                bonus == ClaimedTypeBonus(question, result[i].metadata.type)
            IN /\ result[i].keyword_matches = n
               /\ result[i].relevance_score =
                     FloatScore(IF n < 3 THEN n ELSE 3, bonus)
               /\ result[i].relevance_score >= 800
               /\ result[i].relevance_score <= 1300

\* C10 witness: four common tokens and an exercise bonus: the capped maximum 1.3
C10_Witness ==
    /\ RerankDone
    /\ \E i \in 1..Len(result) :
          /\ result[i].keyword_matches = 4
          /\ result[i].relevance_score = 1300

\* the score rerank_results gives one of its inputs
ScoreOf(query, r) == Enhanced(query, r).relevance_score

\* f picks the outputs from the inputs: distinct positions, same hit, equal
\* scores in input order, and every input left out ranks after every output
Selects(f, query, inputs, outputs) ==
    /\ \A i, j \in 1..Len(outputs) : i /= j => f[i] /= f[j]
    /\ \A i \in 1..Len(outputs) :
          /\ outputs[i].content = inputs[f[i]].content
          /\ outputs[i].metadata = inputs[f[i]].metadata
          /\ outputs[i].relevance_score = ScoreOf(query, inputs[f[i]])
    /\ \A i, j \in 1..Len(outputs) :
          (i < j /\ outputs[i].relevance_score = outputs[j].relevance_score)
              => f[i] < f[j]
    /\ \A m \in (1..Len(inputs)) \ {f[i] : i \in 1..Len(outputs)} :
          \A i \in 1..Len(outputs) :
              \/ outputs[i].relevance_score > ScoreOf(query, inputs[m])
              \/ /\ outputs[i].relevance_score = ScoreOf(query, inputs[m])
                 /\ f[i] < m

\* C11: rerank_results returns its inputs by descending score, equal scores
\* in their input order, cut to the first top_k: min(top_k, number of inputs)
\* elements, each one of the inputs; an empty input gives the empty sequence
\* whatever the query and top_k.
C11_StableDescendingTopK ==
    RerankDone =>
        /\ Len(result) = Min(top_k, Len(initial_results))
        /\ initial_results = <<>> => result = <<>>
        /\ \A i \in 1..(Len(result) - 1) :
              result[i].relevance_score >= result[i + 1].relevance_score
        /\ \E f \in [1..Len(result) -> 1..Len(initial_results)] :
              Selects(f, question, initial_results, result)

\* C11 witness: two different hits of equal score, cut to one: the first input is kept
C11_Witness ==
    /\ RerankDone
    /\ Len(initial_results) = 2
    /\ initial_results[1] /= initial_results[2]
    /\ ScoreOf(question, initial_results[1]) = ScoreOf(question, initial_results[2])
    /\ top_k = 1
    /\ Len(result) = 1
    /\ result[1].content = initial_results[1].content

\* the worked example: the collection holds the one document "HTML is a
\* markup language" of type text and the query is "What is HTML?"
ExampleDone ==
    /\ op = "search_and_rerank" /\ pc = "done"
    /\ collection = [docs |-> <<ExampleDoc>>, fails |-> FALSE]
    /\ question = <<"What", "is", "HTML?">>
    /\ top_k >= 1

\* query_terms.intersection(content_terms) of the worked example
ExampleOverlap == TermSet(question) \cap TermSet(ExampleDoc.content)

ExampleScored ==
    /\ Len(result) = 1
    /\ result[1].content = ExampleDoc.content
    /\ result[1].relevance_score = 900
    /\ result[1].keyword_matches = 1
    /\ TypeBonus(question, result[1].metadata.type) = 0

\* C12 as stated: the hit of the worked example scores 0.9, the overlap being
\* the single term "html" (keyword bonus 0.1, keyword_matches 1, no type
\* bonus).
C12_OverlapIsHtml ==
    ExampleDone => (ExampleScored /\ ExampleOverlap = {"html"})

\* C12 (amended): the hit of the worked example scores 0.9 with
\* keyword_matches 1 and no type bonus; the one common whitespace token is
\* "is", since the query token "html?" differs from the content token "html".
C12_OverlapIsIs ==
    ExampleDone => (ExampleScored /\ ExampleOverlap = {"is"})

\* C12 witness: the worked example was searched and reranked and its hit scored 0.9
C12_Witness ==
    ExampleDone /\ ExampleScored /\ "html?" \in TermSet(question)

SearchAndRerankDone == op = "search_and_rerank" /\ pc = "done"

\* C13: search_and_rerank returns rerank_results of the query, the result of
\* search_content and top_k; it runs exactly one search; when that search is
\* empty it returns the empty sequence and rerank_results is not called.
C13_Composition ==
    SearchAndRerankDone =>
        LET found == search_content(collection, question, n_results).value
        IN /\ result = rerank_results(question, found, top_k)
           /\ storeLog = <<QueryCall(question, n_results)>>
           /\ ~raised
           /\ scored = (IF found = <<>> THEN 0 ELSE 1)
           /\ found = <<>> => result = <<>>

\* C13 witness: two hits were found and reranked into the other order
C13_Witness ==
    /\ SearchAndRerankDone
    /\ scored = 1
    /\ Len(result) = 2
    /\ result[1].content =
          search_content(collection, question, n_results).value[2].content

-----------------------------------------------------------------------------
(* Properties of the index state and the re-index run (checked under       *)
(* SpecIndexing)                                                           *)

\* a run of setup_content_indexing has just ended
RunDone == op = "setup_content_indexing" /\ pc = "done"

\* a resource state as a name-to-mtime mapping: its set of items
StateOf(dir) == {<<f.name, f.mtime>> : f \in dir}

\* the state last saved, as a mapping; empty when none was saved
SavedState(file) ==
    IF file.kind = "json" THEN {file.items[i] : i \in 1..Len(file.items)} ELSE {}

Took(step) == \E i \in 1..Len(idxLog) : idxLog[i] = step

Reindexed == Took("process_all_files")

\* the run left its state, collection and state file as they were, but for
\* get_or_create_collection
TookUpToDateBranch ==
    /\ idxLog = <<"get_or_create_collection">>
    /\ stateFile = pre.stateFile
    /\ chroma.docs = pre.chroma.docs
    /\ ~raised

\* C14: the re-index decision is inequality of the current resource state
\* and the last saved state as name-to-mtime mappings: no re-index when they
\* are equal; a re-index whenever a file was added, a file was removed or a
\* file's mtime differs.
C14_ReindexIffStateDiffers ==
    (RunDone /\ pre.stateFile.kind \in {"absent", "json"}) =>
        LET current == StateOf(pre.files)
            last == SavedState(pre.stateFile)
        IN /\ Reindexed <=> current /= last
           /\ current = last => TookUpToDateBranch
           /\ (\E f \in pre.files : \A e \in last : e[1] /= f.name) => Reindexed
           /\ (\E e \in last : \A f \in pre.files : f.name /= e[1]) => Reindexed
           /\ (\E f \in pre.files, e \in last :
                   e[1] = f.name /\ e[2] /= f.mtime) => Reindexed

\* C14 witness: the same files as saved, one with a later mtime: re-indexed
C14_Witness ==
    /\ RunDone /\ pre.stateFile.kind = "json"
    /\ {f.name : f \in pre.files} = {e[1] : e \in SavedState(pre.stateFile)}
    /\ Cardinality(pre.files) = 2
    /\ \E f \in pre.files : <<f.name, f.mtime>> \notin SavedState(pre.stateFile)
    /\ Reindexed

\* the state file held something that is no saved state
Corrupted(file) == file.kind \in {"truncated", "undecodable"}

\* C15 as stated: load_index_state returns the saved mapping when the file
\* holds a saved state and the empty mapping, without raising, when the file
\* is absent or its content is not parsable; a run that finds a corrupted
\* state file and a non-empty directory re-indexes.
C15_CorruptedStateIsNoState ==
    RunDone =>
        LET loaded == load_index_state(pre.stateFile)
        IN /\ ~loaded.raises
           /\ failed /= "load_index_state"
           /\ pre.stateFile.kind = "json" =>
                 loaded.value = pre.stateFile.items
           /\ pre.stateFile.kind /= "json" => loaded.value = <<>>
           /\ (Corrupted(pre.stateFile) /\ pre.files /= {}) => Reindexed

\* the state reached by the failing input of C15: the run raised in
\* load_index_state and did nothing else
C15_RaisedInLoad ==
    /\ RunDone /\ pre.stateFile = Undecodable /\ pre.files /= {}
    /\ raised /\ failed = "load_index_state" /\ idxLog = <<>>

\* the rank of a step in the order the claim gives
StepRank(step) ==
    CASE step = "list_collections" -> 0
      [] step = "delete_collection" -> 1
      [] step = "get_or_create_collection" -> 2
      [] step = "process_all_files" -> 3
      [] step = "index_documents" -> 4
      [] step = "save_index_state" -> 5
      [] OTHER -> 6

\* no file of the directory yields a document (or a None)
NoDocuments(dir) == \A f \in dir : Processed(f) = <<>>

\* C16: a re-index run takes its steps in the order delete the collection
\* if present, create it, process all files, insert the documents, save the
\* state; the state is saved only when processing and insertion returned
\* without raising; with zero documents nothing is inserted, the collection
\* is left empty and the state is saved all the same.
C16_ReindexOrder ==
    (RunDone /\ Reindexed) =>
        /\ \A i, j \in 1..Len(idxLog) :
              i < j => StepRank(idxLog[i]) < StepRank(idxLog[j])
        /\ Took("delete_collection") <=> pre.chroma.exists
        /\ Took("get_or_create_collection") /\ chroma.exists
        /\ Took("index_documents") <=> ~NoDocuments(pre.files)
        /\ Took("save_index_state") <=> ~raised
        /\ ~raised => /\ stateFile.kind = "json"
                      /\ SavedState(stateFile) = StateOf(pre.files)
                      /\ Len(stateFile.items) = Cardinality(pre.files)
        /\ raised => /\ stateFile = pre.stateFile
                     /\ idxLog[Len(idxLog)] = "index_documents"
        /\ NoDocuments(pre.files) =>
              /\ chroma.docs = <<>>
              /\ ~raised

\* C16 witness: a collection existed and no file yields a document: deleted, created, state saved
C16_Witness ==
    /\ RunDone /\ Reindexed
    /\ pre.chroma.exists /\ pre.files /= {} /\ NoDocuments(pre.files)
    /\ idxLog = <<"list_collections", "delete_collection",
                  "get_or_create_collection", "process_all_files",
                  "save_index_state">>

\* the documents of the files that can be processed, whatever the order
GoodDocuments(dir) ==
    {d \in UNION {Range(Processed(f)) : f \in {g \in dir : g.ok}} : d /= NoValue}

\* one file of the directory cannot be processed, the others can
OneBadFile(dir) ==
    /\ Cardinality({f \in dir : ~f.ok}) = 1
    /\ Cardinality(dir) >= 2

\* C17 as stated: when one file cannot be processed and the others can, the
\* re-index run still completes: the documents of the other files are
\* inserted and the new state is saved (a failure of the vector database
\* itself apart).
C17_FileFailureIsolated ==
    (RunDone /\ Reindexed /\ OneBadFile(pre.files) /\ failed /= "collection.add") =>
        /\ ~raised
        /\ Range(chroma.docs) = GoodDocuments(pre.files)
        /\ Took("save_index_state")
        /\ SavedState(stateFile) = StateOf(pre.files)

\* the state reached by the failing input of C17: an unreadable text file
\* beside a good file; the run raised in index_documents, the collection is
\* empty and no state was saved
C17_AbortedByTextFile ==
    /\ RunDone /\ Reindexed /\ OneBadFile(pre.files)
    /\ \E f \in pre.files : Suffix(f.name) = ".txt" /\ ~f.ok
    /\ GoodDocuments(pre.files) /= {}
    /\ raised /\ failed = "doc[content]"
    /\ chroma.docs = <<>>
    /\ ~Took("save_index_state")

\* C18: after a run that saved state S, a later run that finds the directory
\* in state S takes the up-to-date branch: it deletes no collection,
\* processes nothing, inserts nothing and does not rewrite the state file.
C18_AtMostOncePerSnapshot ==
    (RunDone /\ pre.stateFile.kind = "json"
             /\ StateOf(pre.files) = SavedState(pre.stateFile)) =>
        /\ ~Took("delete_collection")
        /\ ~Took("process_all_files")
        /\ ~Took("index_documents")
        /\ ~Took("save_index_state")
        /\ stateFile = pre.stateFile
        /\ chroma = pre.chroma
        /\ ~raised

\* C18 witness: a second run on an unchanged directory of two indexed files did nothing
C18_Witness ==
    /\ RunDone /\ pre.stateFile.kind = "json"
    /\ StateOf(pre.files) = SavedState(pre.stateFile)
    /\ Cardinality(pre.files) = 2
    /\ Len(chroma.docs) = 2
    /\ idxLog = <<"get_or_create_collection">>
    /\ stateFile = pre.stateFile

-----------------------------------------------------------------------------
(* Properties of the background media task and its poller (checked under   *)
(* SpecMedia)                                                              *)

MediaTask == op = "generate_media_async"

Before(e, i) == \E j \in 1..(i - 1) : mediaLog[j] = e

\* the record a complete JSON text holds says key: true
Ready(text, key) ==
    LET loaded == Decode(text)
    IN loaded.error = "" /\ Has(loaded.value, key, "true")

\* C19: audio strictly precedes video: generate_video is called only after
\* generate_audio returned and the audio-ready record was written, and every
\* record written to the status file with video_ready = true also has
\* audio_ready = true.
C19_AudioBeforeVideo ==
    MediaTask =>
        /\ \A i \in 1..Len(mediaLog) :
              mediaLog[i] = "generate_video" =>
                  /\ Before("audio_returned", i)
                  /\ Before("audio_record", i)
                  /\ ~Before("audio_raised", i)
                  /\ AudioRecord \in written
        /\ \A text \in written :
              Ready(text, "video_ready") => Ready(text, "audio_ready")
        /\ (statusFile.kind = "text" /\ Ready(statusFile.text, "video_ready"))
              => Ready(statusFile.text, "audio_ready")

\* C19 witness: the task ran to the end: audio record, then video, then the full record
C19_Witness ==
    /\ MediaTask /\ wpc = "done"
    /\ mediaLog = <<"generate_audio", "audio_returned", "audio_record",
                    "generate_video", "video_returned", "full_record">>
    /\ FullRecord \in written
    /\ Ready(statusFile.text, "video_ready")

\* a call of check_media_status has returned or raised
Polled == MediaTask /\ ppc = "idle" /\ (result /= NoValue \/ raised)

\* the text is no complete JSON text
Unparsable(file) == file.kind = "text" /\ Decode(file.text).error /= ""

\* C20: whenever the poller looks at the status file (before it exists,
\* while it is empty or half-written, after a complete record)
\* check_media_status does not raise: it returns {audio_ready: false,
\* video_ready: false} when the file is absent or unparsable, and otherwise
\* the record of a text the writer wrote in full.
C20_PollerNeverRaises ==
    /\ MediaTask => ~raised
    /\ Polled =>
          /\ (polled.kind = "absent" \/ Unparsable(polled)) => result = NotReady
          /\ (polled.kind = "text" /\ ~Unparsable(polled)) =>
                /\ polled.text \in written
                /\ result = Decode(polled.text).value
          /\ result = NotReady \/ \E text \in written : result = Decode(text).value

\* C20 witness: a poll found the full record half-written over the audio record: not ready
C20_Witness ==
    /\ Polled /\ wpc = "dump_full"
    /\ polled.kind = "text" /\ polled.text /= <<>> /\ Unparsable(polled)
    /\ AudioRecord \in written
    /\ result = NotReady

\* number of times the event is in the thread's log
Count(e) == Cardinality({i \in 1..Len(mediaLog) : mediaLog[i] = e})

\* the status file holds a complete record with an error entry
ErrorOnFile ==
    /\ statusFile.kind = "text"
    /\ Decode(statusFile.text).error = ""
    /\ "error" \in Decode(statusFile.text).value.keys

\* the status file holds the record with audio_ready and video_ready true
ReadyOnFile ==
    /\ statusFile.kind = "text"
    /\ Ready(statusFile.text, "audio_ready")
    /\ Ready(statusFile.text, "video_ready")

C21_Once ==
    MediaTask =>
        /\ Count("generate_audio") <= 1
        /\ Count("generate_video") <= 1
        /\ wpc = "done" => (ReadyOnFile \/ ErrorOnFile)
        /\ ~openai_client =>
              /\ Count("generate_video") = 0
              /\ Count("audio_returned") = 0
              /\ wpc = "done" => ErrorOnFile

C29_PollingStops == (MediaTask /\ wpc = "done") ~> (upc = "chat_input")

\* C29 witness: the task ended with an error record, the interface polled it
\* and took over the error text, and the message still counts as pending
C29_PendingAfterError ==
    /\ MediaTask /\ wpc = "done" /\ ErrorOnFile
    /\ polled = statusFile
    /\ message.media_error /= ""
    /\ pending_media(message)
    /\ upc = "sleep"

\* a call of check_media_status returns in this step
PollReturns == MediaTask /\ upc = "check_media_status" /\ upc' = "update_message"

\* C30 as stated: the status check_media_status returns is monotone: after
\* a call that returned audio_ready = true (video_ready = true) the next
\* call returns audio_ready = true (video_ready = true) as well.
C30_StatusMonotone ==
    [][(PollReturns /\ result /= NoValue) =>
          /\ Truthy(result, "audio_ready") => Truthy(result', "audio_ready")
          /\ Truthy(result, "video_ready") => Truthy(result', "video_ready")]_vars

\* C30, amended: the flags of the assistant message are monotone: once the
\* message has audio_ready (video_ready) it keeps it, whatever later calls
\* of check_media_status return; the returned status itself may fall back
\* to not ready or to an error record.
C30_MessageMonotone ==
    [][MediaTask =>
          /\ message.audio_ready => message'.audio_ready
          /\ message.video_ready => message'.video_ready]_vars

\* C30 witness: the message has audio_ready from an earlier poll, and the
\* last poll, taken while the full record was being written, said not ready
C30_Witness ==
    /\ Polled /\ upc = "pending_media"
    /\ message.audio_ready
    /\ result = NotReady
    /\ wpc = "dump_full"

-----------------------------------------------------------------------------
(* Properties of analyze_indexed_content (checked under SpecAnalysis)      *)

ContentDone == op = "analyze_indexed_content" /\ pc = "done"

\* the call ended in the except clause: the store raised, or the completion
\* raised, or its reply held no JSON object that parses
ContentFailure ==
    /\ groq_client
    /\ \/ collection.fails
       \/ /\ collection.docs /= <<>>
          /\ replyLog /= <<>>
          /\ ~ParsedReply(replyLog[1]).ok

\* the technologies and topics lists of the returned summary
Listed(key) == Get(result, key, StrList(<<>>)).items

\* C23 as stated: analyze_indexed_content never raises, and its no-LLM
\* default and its failure default have an empty technologies list and an
\* empty topics list.
C23_DefaultsListNothing ==
    ContentDone =>
        /\ ~raised
        /\ (~groq_client \/ ContentFailure) =>
              /\ Listed("technologies") = <<>>
              /\ Listed("topics") = <<>>

\* C23, amended: analyze_indexed_content never raises; its no-LLM default
\* lists the one technology "Programacao" and its failure default the one
\* technology "Programacao geral", both with the one topic "Conceitos
\* basicos"; only the default for an empty store has empty lists.
C23_DefaultsListPlaceholders ==
    ContentDone =>
        /\ ~raised
        /\ ~groq_client =>
              /\ Listed("technologies") = << <<"Programacao">> >>
              /\ Listed("topics") = << <<"Conceitos", "basicos">> >>
              /\ Get(result, "file_count", -1) = 0
              /\ llmLog = <<>> /\ storeLog = <<>>
        /\ ContentFailure =>
              /\ Listed("technologies") = << <<"Programacao", "geral">> >>
              /\ Listed("topics") = << <<"Conceitos", "basicos">> >>
        /\ (groq_client /\ ~collection.fails /\ collection.docs = <<>>) =>
              /\ Listed("technologies") = <<>>
              /\ Listed("topics") = <<>>
              /\ llmLog = <<>>

\* C23 witness: the completion's reply had no JSON object: the failure default
C23_Witness ==
    /\ ContentDone /\ ContentFailure
    /\ ~collection.fails
    /\ replyLog = <<[raises |-> FALSE, content |-> <<"x">>]>>
    /\ Get(result, "summary", "") = "Conteudo educacional sobre programacao"
    /\ Listed("technologies") /= <<>>

-----------------------------------------------------------------------------
(* The analysis analyze_question_maturity hands to the generator           *)

\* C28: every value analyze_question_maturity returns (without a client,
\* after a failure, and for any JSON object the completion returned) carries
\* knowledge_level, topics and confidence, so that the generator's use of
\* analysis["topics"] and analysis["knowledge_level"] cannot fail.
C28_AnalysisComplete ==
    MaturityDone =>
        /\ ~raised
        /\ {"knowledge_level", "topics", "confidence"} \subseteq result.keys

\* C28 witness: the completion returned an object with knowledge_level and
\* confidence only, and that object is what the caller got
C28_ReturnedWithoutTopics ==
    /\ MaturityDone /\ groq_client
    /\ replyLog = <<[raises |-> FALSE, content |-> <<"{", "M_notopics", "}">>]>>
    /\ result = JSONObject("M_notopics")
    /\ "topics" \notin result.keys

-----------------------------------------------------------------------------
(* Properties of the retrieval and answer steps of                         *)
(* generate_adaptive_response (checked under Spec)                         *)

\* the final completion was requested: its prompt
Answered == \E i \in 1..Len(llmLog) : llmLog[i].purpose = "answer"

AnswerPrompt ==
    llmLog[CHOOSE i \in 1..Len(llmLog) : llmLog[i].purpose = "answer"].prompt

\* content[:100] of the i-th retrieved result
Prefix(i) == SubSeq(all_results[i].content, 1, Min(2, Len(all_results[i].content)))

\* the positions in all_results whose prefix did not occur before
Firsts == {i \in 1..Len(all_results) : \A j \in 1..(i - 1) : Prefix(j) /= Prefix(i)}

\* the k-th of them
Kth(k) == CHOOSE i \in Firsts : Cardinality({j \in Firsts : j < i}) = k - 1

\* C24: the concatenated retrieval results are de-duplicated by the first
\* 100 characters of their content: of each prefix exactly the earliest
\* result survives, survivors keep their order, and the first 3 survivors
\* make the context; so the context has at most 3 entries, with pairwise
\* different prefixes.
C24_DedupByPrefix ==
    Answered =>
        LET context == AnswerPrompt.context
        IN /\ Len(context) = Min(3, Cardinality(Firsts))
           /\ Len(context) <= 3
           /\ \A k \in 1..Len(context) :
                 /\ context[k].source = all_results[Kth(k)].metadata.file
                 /\ context[k].content = all_results[Kth(k)].content
           /\ \A k, l \in 1..Len(context) :
                 k < l => SubSeq(context[k].content, 1, Min(2, Len(context[k].content)))
                          /= SubSeq(context[l].content, 1, Min(2, Len(context[l].content)))

\* C24 witness: two different chunks with the same first 100 characters were
\* retrieved, and only the earlier one is in the context
C24_Witness ==
    /\ Answered /\ collection = TwinStore
    /\ \E i, j \in 1..Len(all_results) :
          /\ i < j /\ Prefix(i) = Prefix(j)
          /\ all_results[i].content /= all_results[j].content
    /\ Len(AnswerPrompt.context) = 1
    /\ AnswerPrompt.context[1].content = all_results[1].content

\* more than three different results were retrieved, three are in the context
C24_Truncated ==
    /\ Answered
    /\ Cardinality(Firsts) > 3
    /\ Len(AnswerPrompt.context) = 3

\* the generator is in or past its retrieval loop
Retrieving ==
    /\ op = "generate_adaptive_response"
    /\ \/ pc \in {"retrieve", "answer"}
       \/ pc = "done" /\ (Answered \/ failed \in {"prompt", "completion"})

\* [question] + analysis["topics"]
QueryList == <<question>> \o analysis.val.topics.items

\* the store calls made after the one of the scope check
RetrievalCalls == Tail(storeLog)

\* the results of the first k queries of the list, one after the other
RECURSIVE Gathered(_)
Gathered(k) ==
    IF k = 0 THEN <<>>
    ELSE Gathered(k - 1) \o search_and_rerank(collection, QueryList[k], 5, 3).value

\* C25: the retrieval queries are the first 3 entries of [question] followed
\* by the analysis topics: at most 3 search_and_rerank calls are made, each
\* asking the store for 5 results and keeping the top 3, the first always
\* for the question itself, in list order, and all_results is their results
\* concatenated in that order.
C25_RetrievalQueries ==
    Retrieving =>
        /\ Len(RetrievalCalls) <= Min(3, Len(QueryList))
        /\ pc /= "retrieve" => Len(RetrievalCalls) = Min(3, Len(QueryList))
        /\ \A k \in 1..Len(RetrievalCalls) :
              RetrievalCalls[k] = [call |-> "query", query |-> QueryList[k], n |-> 5]
        /\ RetrievalCalls /= <<>> => RetrievalCalls[1].query = question
        /\ all_results = Gathered(Len(RetrievalCalls))
        /\ Len(all_results) <= 3 * Len(RetrievalCalls)

\* C25 witness: three topics came back, three queries were made (the question
\* and the first two topics), each kept 3 of the store's 4 documents
C25_Witness ==
    /\ Retrieving /\ pc = "answer"
    /\ collection = FullStore
    /\ Len(QueryList) = 4
    /\ Len(RetrievalCalls) = 3
    /\ RetrievalCalls[3].query = <<"css">>
    /\ Len(all_results) = 9

\* the purposes of the completion requests made so far, in order
PurposeSeq(log) == [i \in 1..Len(log) |-> log[i].purpose]

\* C26: for an in-scope question the order is scope check, classification,
\* maturity analysis, retrieval, final completion: store calls of the
\* retrieval are made only after the three analyses and before the final
\* completion, exactly one final completion is requested, after the last
\* retrieval call, and what is returned is that completion's text.
C26_InScopeOrder ==
    [][op = "generate_adaptive_response" =>
          /\ (pc = "retrieve" /\ storeLog' /= storeLog) =>
                /\ PurposeSeq(llmLog) = <<"scope", "classify", "maturity">>
                /\ llmLog' = llmLog
          /\ (~Answered /\ Answered') =>
                /\ PurposeSeq(llmLog') = <<"scope", "classify", "maturity", "answer">>
                /\ Len(RetrievalCalls) = Min(3, Len(QueryList))
                /\ storeLog' = storeLog
          /\ Answered => (llmLog' = llmLog /\ storeLog' = storeLog)
          /\ result'.tag = "answer" =>
                /\ PurposeSeq(llmLog') = <<"scope", "classify", "maturity", "answer">>
                /\ replyLog' /= <<>> /\ ~replyLog'[1].raises
                /\ result'.content = replyLog'[1].content]_vars

\* C26 witness: every step succeeded and the completion's text was returned
C26_Witness ==
    /\ op = "generate_adaptive_response" /\ pc = "done"
    /\ Get(scope_validation, "reasoning", "") = "llm"
    /\ Get(question_type, "reasoning", "") = "llm"
    /\ Get(analysis, "reasoning", "") = "llm"
    /\ Len(RetrievalCalls) = 3
    /\ PurposeSeq(llmLog) = <<"scope", "classify", "maturity", "answer">>
    /\ result = [tag |-> "answer", content |-> <<"x", "x">>]

-----------------------------------------------------------------------------
(* Properties of the prompt assembly (checked under SpecPrompt)            *)

PromptDone == op = "prompt_assembly" /\ pc = "done"

\* the second and third instruction of the assembled prompt
VerbosityLine == result.prompt.instructions[2]

StyleLine == result.prompt.instructions[3]

ModerateLine == "Forneca uma explicacao equilibrada com exemplos praticos."

EducationalLine == "Use abordagem educacional com conceitos e exemplos."

UnknownVerbosity ==
    "verbosity" \in question_type.keys
        /\ question_type.val.verbosity \notin {"concise", "moderate", "detailed"}

UnknownStyle ==
    "style" \in question_type.keys
        /\ question_type.val.style
              \notin {"list", "conversational", "educational", "tutorial"}

\* C27 as stated: a verbosity that is not concise, moderate or detailed gets
\* the instruction sentence of moderate, a style that is not list,
\* conversational, educational or tutorial gets the sentence of
\* educational, and so does a missing verbosity or style.
C27_FallbackIsDefaultSentence ==
    PromptDone =>
        /\ (UnknownVerbosity \/ "verbosity" \notin question_type.keys)
              => VerbosityLine = ModerateLine
        /\ (UnknownStyle \/ "style" \notin question_type.keys)
              => StyleLine = EducationalLine

\* C27, amended: a missing verbosity gets the sentence of moderate, but a
\* verbosity that is present and not recognised gets a sentence of its own,
\* "Forneca uma explicacao equilibrada."; a style that is missing or not
\* recognised gets the sentence of educational.
C27_FallbackSentences ==
    PromptDone =>
        /\ "verbosity" \notin question_type.keys => VerbosityLine = ModerateLine
        /\ UnknownVerbosity =>
              /\ VerbosityLine = "Forneca uma explicacao equilibrada."
              /\ VerbosityLine /= ModerateLine
        /\ Get(question_type, "verbosity", "") = "moderate" => VerbosityLine = ModerateLine
        /\ (UnknownStyle \/ "style" \notin question_type.keys)
              => StyleLine = EducationalLine
        /\ Get(question_type, "style", "") = "educational" => StyleLine = EducationalLine
        /\ Get(question_type, "style", "") = "list" => StyleLine /= EducationalLine
        /\ Get(question_type, "verbosity", "") = "concise" =>
              VerbosityLine \notin {ModerateLine, "Forneca uma explicacao equilibrada."}

\* C27 witness: a classification with verbosity "verbose" and no style
C27_Witness ==
    /\ PromptDone
    /\ UnknownVerbosity /\ "style" \notin question_type.keys
    /\ VerbosityLine = "Forneca uma explicacao equilibrada."
    /\ StyleLine = EducationalLine

====
